---- MODULE Spec2Model ----
(***************************************************************************)
(* Baby-shower gift registry worker: the D1 tables (items, contributions,  *)
(* chat_rate_limit) as schema.sql creates and seeds them, and the HTTP     *)
(* handlers of the worker.                                                 *)
(*                                                                         *)
(* A handler runs alone up to each await of the database. A handler that   *)
(* reads and then writes (or reads twice) is therefore split at the await  *)
(* after its first SELECT: Begin... runs it up to that SELECT and suspends *)
(* it in `inflight` with the row it read, Commit... runs the rest, while   *)
(* other requests may be served in between. A handler with one statement   *)
(* is one action.                                                          *)
(*                                                                         *)
(* Money is a JavaScript number and a REAL column, that is an IEEE-754     *)
(* double. Num(hi, lo) stands for the double (hi * 2^30 + lo) * 2^-50. The *)
(* doubles of the model are the multiples of 2^-50 below 2^9 in magnitude: *)
(* every whole amount, every two-decimal amount from 4.00 on and all their *)
(* sums and differences; Plus and Minus round to the nearest double, ties  *)
(* to the even mantissa.                                                   *)
(***************************************************************************)
EXTENDS Integers, Sequences, FiniteSets, Bags, TLC

VARIABLES
  items,          \* table items: id -> row
  nextItemId,     \* AUTOINCREMENT of items.id
  contributions,  \* table contributions: id -> row
  nextContribId,  \* AUTOINCREMENT of contributions.id
  rate,           \* table chat_rate_limit: <<ip, day>> -> count
  today,          \* the current UTC day
  inflight,       \* bag of the handlers suspended at an await of the database
  authUsed,       \* number of auth requests received so far (model bound)
  last            \* the handler step taken last: its request, the input it read, its response

vars == <<items, nextItemId, contributions, nextContribId, rate, today,
          inflight, authUsed, last>>

db == <<items, nextItemId, contributions, nextContribId>>

----------------------------------------------------------------------------
(* Bounds of the model *)

MaxItems == 1
MaxSeed == 1
MaxContribs == 2
MaxWorkerContribs == 1
MaxPrice == 2
MaxAmount == 3
MaxInflight == 2
MaxDay == 2
MaxAuthRequests == 12
MaxListed == 3
MaxText == 4

(* Program constants *)

LOGIN_LIMIT == 10
CHAT_DAILY_LIMIT == 3
MAX_NAME_LENGTH == 100
MAX_GENERIC_STRING == 500
MAX_MESSAGE_LENGTH == 300

ADMIN_PASSWORD == "admin-secret"
GUEST_PASSWORD == "guest-secret"

----------------------------------------------------------------------------
(* Numbers *)

\* the double (hi * 2^30 + lo) * 2^-50, with 0 <= lo < 2^30
Num(hi, lo) == [hi |-> hi, lo |-> lo]

\* 2^30
Limb == 1073741824

\* the double of a small integer n: n * 2^20 * 2^30 * 2^-50
Exact(n) == Num(n * 1048576, 0)

Zero == Exact(0)

\* -a
Neg(a) == IF a.lo = 0 THEN Num(0 - a.hi, 0) ELSE Num(0 - a.hi - 1, Limb - a.lo)

\* the real number a + b, before it is rounded
ExactPlus(a, b) == Num(a.hi + b.hi + ((a.lo + b.lo) \div Limb), (a.lo + b.lo) % Limb)

\* the largest power of two that is at most w (1 <= w < 128)
Binade(w) == CHOOSE p \in {1, 2, 4, 8, 16, 32, 64} : p <= w /\ w < 2 * p

\* the distance, in units of 2^-50, between neighbouring doubles at a >= 8.0:
\* 53 bits of mantissa leave steps of 2 units in [8, 16), of 4 in [16, 32), ...
Spacing(a) == 2 * Binade(a.hi \div 8388608)

\* the multiple of step nearest to k; on a tie the one with the even mantissa
Nearest(k, step) ==
  LET down == k - (k % step)
      up   == down + step
  IN IF k = down THEN k
     ELSE IF 2 * (k - down) < step THEN down
     ELSE IF 2 * (k - down) > step THEN up
     ELSE IF down % (2 * step) = 0 THEN down ELSE up

\* round-to-nearest-even of a real number a >= 0 to a double; below 8.0 every
\* multiple of 2^-50 is a double
RoundMagnitude(a) ==
  IF a.hi < 8388608 THEN a
  ELSE LET lo == Nearest(a.lo, Spacing(a))
       IN IF lo = Limb THEN Num(a.hi + 1, 0) ELSE Num(a.hi, lo)

\* round-to-nearest-even of the real number a to a double
RoundNum(a) == IF a.hi < 0 THEN Neg(RoundMagnitude(Neg(a))) ELSE RoundMagnitude(a)

\* a + b and a - b on doubles
Plus(a, b) == RoundNum(ExactPlus(a, b))
Minus(a, b) == RoundNum(ExactPlus(a, Neg(b)))

\* a < b and a <= b on doubles
Less(a, b) == a.hi < b.hi \/ (a.hi = b.hi /\ a.lo < b.lo)
AtMost(a, b) == ~Less(b, a)

\* Math.min(a, b) and SQLite's MAX(a, b)
Min(a, b) == IF Less(b, a) THEN b ELSE a
Max(a, b) == IF Less(a, b) THEN b ELSE a

\* the doubles 29.2 (0x1.d333333333333p+4) and 100
Amount29_20 == Num(30618419, 214748364)
Amount100 == Exact(100)

----------------------------------------------------------------------------
(* Values of requests *)

NoHeader == "<null>"          \* headers.get(...) === null
Undefined == "<undefined>"    \* a JSON body field that is absent
NoRow == [none |-> TRUE]      \* .first() found nothing

\* body.f !== undefined, for a number field of a JSON body
Has(body, f) == f \in DOMAIN body

\* the request headers the worker reads
Request(adminHeader, guestHeader, cf, xff) ==
  [X_Admin_Password |-> adminHeader, X_Guest_Password |-> guestHeader,
   CF_Connecting_IP |-> cf, X_Forwarded_For |-> xff]

\* the callers of the model: one without any header, a guest at ip1, a guest
\* behind a proxy at ip2 who also sends a wrong admin password, and the admin
Anonymous == Request(NoHeader, NoHeader, NoHeader, NoHeader)
Guest1 == Request(NoHeader, GUEST_PASSWORD, "ip1", NoHeader)
Guest2 == Request(GUEST_PASSWORD, GUEST_PASSWORD, NoHeader, "ip2, 10.0.0.1")
Admin == Request(ADMIN_PASSWORD, NoHeader, "ip1", NoHeader)

Requests == {Anonymous, Guest1, Guest2, Admin}

Titles == {"Berco"}
Names == {"Ana"}
Prices == {Exact(0), Exact(MaxPrice)}
Amounts == {Exact(MaxAmount), Amount29_20, Amount100}
Days == 1..MaxDay

----------------------------------------------------------------------------
(* Helpers of the worker *)

isAdminAnyHeader(request) == request.X_Admin_Password # NoHeader

isAdmin(request) ==
  /\ request.X_Admin_Password # NoHeader
  /\ request.X_Admin_Password = ADMIN_PASSWORD

\* a guard that would take every request for a guest's
isGuestAlways(request) == TRUE

isGuest(request) ==
  /\ request.X_Guest_Password # NoHeader
  /\ request.X_Guest_Password = GUEST_PASSWORD

\* X-Forwarded-For?.split(",")[0].trim(): the model's only list value
FirstForwarded(xff) == IF xff = "ip2, 10.0.0.1" THEN "ip2" ELSE xff

getIP(request) ==
  IF request.CF_Connecting_IP # NoHeader THEN request.CF_Connecting_IP
  ELSE IF request.X_Forwarded_For # NoHeader
       THEN FirstForwarded(request.X_Forwarded_For)
       ELSE "unknown"

\* value.replace(control characters, " ").trim() on the model's strings
Trim(value) == IF value \in {"", " "} THEN "" ELSE value

\* sanitise(value, maxLen): "" for a non-string, else trimmed and cut to maxLen
\* (every string of the model is shorter than the caps, so the cut keeps it)
sanitise(value, maxLen) ==
  IF value = Undefined THEN "" ELSE Trim(value)

\* { error: string }
Error(text) == [error |-> text]

\* nothing of the request's input is logged
NoInput == [none |-> TRUE]

\* the response (status and JSON body), logged with the handler, the request
\* and the input the handler worked on once it had read it
jsonResponse(op, request, input, status, body) ==
  [op |-> op, request |-> request, input |-> input, status |-> status, body |-> body]

----------------------------------------------------------------------------
(* schema.sql: the constraints of the tables and the rows it seeds *)

ItemRowOK(row) ==
  /\ row.title # ""
  /\ AtMost(Zero, row.price_total)
  /\ AtMost(Zero, row.price_raised)
  /\ row.is_funded \in {0, 1}

\* the columns of contributions the model keeps. contributor_ip is not in
\* schema.sql: every statement of the worker on contributions names it, so the
\* tables are taken as the worker presupposes them, with the contributor
\* identity token (nullable text) among the fields of a contribution
ContributionColumns == {"item_id", "contributor_name", "amount", "contributor_ip"}

ContributionRowOK(row) ==
  /\ DOMAIN row = ContributionColumns
  /\ row.item_id \in DOMAIN items
  /\ row.contributor_name # ""
  /\ Less(Zero, row.amount)

\* a row of INSERT INTO items (title, ..., price_total): price_raised and
\* is_funded take their DEFAULT
SeedItem(title, price_total) ==
  [title |-> title, price_total |-> price_total, price_raised |-> Zero, is_funded |-> 0]

\* the seeded items, with price_total 63.99, 229.95, 9.99, 137.13, 76.49,
\* 53.99, 37.95, 24.99, 138.00, 44.98 and 27.99
Seeds ==
  <<SeedItem("Monitor para bebé", Num(67098378, 257698040)),
    SeedItem("Base Isofix para cadeira auto", Num(241120051, 214748352)),
    SeedItem("Espelho retrovisor para assento de bebé", Num(10475274, 257698038)),
    SeedItem("Marsúpio para bebé", Num(143791226, 944892800)),
    SeedItem("Cadeira Zest Plus Chicco 6 meses até aos 40Kg", Num(80205578, 257698032)),
    SeedItem("Ginásio para bebé", Num(56612618, 257698040)),
    SeedItem("Ninho para bebé", Num(39793459, 214748368)),
    SeedItem("Colchão para troca de fraldas", Num(26203914, 257698036)),
    SeedItem("Banheira Stokke com suporte", Exact(138)),
    SeedItem("Malinha para troca de fraldas", Num(47164948, 515396072)),
    SeedItem("Vestidos de dormir para bebé", Num(29349642, 257698036))>>

SeedCount == Len(Seeds)

\* no handler has answered yet
NoResponse ==
  [op |-> "none", request |-> Anonymous, input |-> NoInput, status |-> 0,
   body |-> [none |-> TRUE]]

\* the database after schema.sql, no request served yet
Init ==
  /\ items = [id \in 1..SeedCount |-> Seeds[id]]
  /\ nextItemId = SeedCount + 1
  /\ contributions = <<>>
  /\ nextContribId = 1
  /\ rate = <<>>
  /\ today = 1
  /\ inflight = EmptyBag
  /\ authUsed = 0
  /\ last = NoResponse

----------------------------------------------------------------------------
(* Table access *)

\* SELECT * FROM items WHERE id=?  (.first())
SelectItem(id) == IF id \in DOMAIN items THEN items[id] ELSE NoRow

\* the rows of a table without the row id
Without(table, id) == [k \in DOMAIN table \ {id} |-> table[k]]

\* the ids of the contributions of one item
ContribsOf(itemId) == {c \in DOMAIN contributions : contributions[c].item_id = itemId}

\* what a handler of the ledger tables never touches
NoAuthChange == UNCHANGED <<rate, today, authUsed>>

\* the response of a handler that goes on after an await of the database is
\* still to come
Awaiting(op, request) == jsonResponse(op, request, NoInput, 0, [await |-> TRUE])

\* the handler is suspended at the await after its SELECT, with what it read
Suspend(rec) ==
  /\ BagCardinality(inflight) < MaxInflight
  /\ inflight' = inflight (+) SetToBag({rec})
  /\ last' = Awaiting(rec.op, rec.request)
  /\ UNCHANGED db

\* the suspended handler p is resumed
Resumed(p) == BagIn(p, inflight) /\ inflight' = inflight (-) SetToBag({p})

----------------------------------------------------------------------------
(* POST /api/items *)

CreateItemBodies ==
  [title : Titles, price_total : Prices \cup {Exact(-1)}]
  \cup [title : {Undefined, " "}, price_total : {Exact(MaxPrice)}]
  \cup [title : Titles]

\* what the log keeps of a create: the body sent
CreateInput(body) == [body |-> body]

handleCreateItem(request, body) ==
  LET title == sanitise(body.title, MAX_GENERIC_STRING)
  IN
  /\ NoAuthChange /\ UNCHANGED <<contributions, nextContribId, inflight>>
  /\ IF ~isAdmin(request)
     THEN /\ last' = jsonResponse("CreateItem", request, NoInput, 401, Error("Unauthorized"))
          /\ UNCHANGED <<items, nextItemId>>
     ELSE IF title = ""
     THEN /\ last' = jsonResponse("CreateItem", request, CreateInput(body), 400,
                                  Error("title is required"))
          /\ UNCHANGED <<items, nextItemId>>
     ELSE IF ~Has(body, "price_total") \/ Less(body.price_total, Zero)
     THEN /\ last' = jsonResponse("CreateItem", request, CreateInput(body), 400,
                                  Error("price_total must be >= 0"))
          /\ UNCHANGED <<items, nextItemId>>
     ELSE /\ items' = items @@ (nextItemId :>
                        [title |-> title, price_total |-> body.price_total,
                         price_raised |-> Zero, is_funded |-> 0])
          /\ nextItemId' = nextItemId + 1
          /\ last' = jsonResponse("CreateItem", request, CreateInput(body), 201,
                                  [id |-> nextItemId])

----------------------------------------------------------------------------
(* PUT /api/items/:id *)

UpdateItemBodies ==
  [title : Titles, price_total : {Exact(-1), Exact(0), Exact(MaxPrice)}]
  \cup [title : Titles, is_funded : {0, 1}]
  \cup [title : Titles \cup {Undefined}]

\* the row the UPDATE of handleUpdateItem makes of the stored row `cur`, from
\* the body and the row `existing` read before it; price_raised is not set
UpdatedItem(cur, body, existing) ==
  [cur EXCEPT
     !.title = sanitise(body.title, MAX_GENERIC_STRING),
     !.price_total = IF Has(body, "price_total") THEN body.price_total
                     ELSE existing.price_total,
     !.is_funded = IF Has(body, "is_funded") THEN body.is_funded
                   ELSE existing.is_funded]

\* what the log keeps of an edit: the id of the path and the patch
UpdateInput(id, body) == [id |-> id, body |-> body]

\* the UPDATE statement and the response after it
UpdateItemWrite(request, id, body, existing) ==
  /\ UNCHANGED <<nextItemId, contributions, nextContribId>>
  /\ IF id \notin DOMAIN items
     THEN /\ UNCHANGED items
          /\ last' = jsonResponse("UpdateItem", request, UpdateInput(id, body), 200, [success |-> TRUE])
     ELSE IF ItemRowOK(UpdatedItem(items[id], body, existing))
     THEN /\ items' = [items EXCEPT ![id] = UpdatedItem(items[id], body, existing)]
          /\ last' = jsonResponse("UpdateItem", request, UpdateInput(id, body), 200, [success |-> TRUE])
     ELSE /\ UNCHANGED items
          /\ last' = jsonResponse("UpdateItem", request, UpdateInput(id, body), 500,
                                  Error("Internal Server Error"))

\* the handler up to its SELECT: the response it gives there, or status 0 to go on
UpdateItemEarly(request, id, body) ==
  IF ~isAdmin(request) THEN <<401, Error("Unauthorized")>>
  ELSE IF sanitise(body.title, MAX_GENERIC_STRING) = "" THEN <<400, Error("title is required")>>
  ELSE IF SelectItem(id) = NoRow THEN <<404, Error("Item not found")>>
  ELSE <<0, Error("")>>

\* handleUpdateItem up to the await after its SELECT
BeginUpdateItem(request, id, body) ==
  LET early == UpdateItemEarly(request, id, body)
  IN
  /\ NoAuthChange
  /\ IF early[1] # 0
     THEN /\ last' = jsonResponse("UpdateItem", request,
                       IF early[1] = 401 THEN NoInput ELSE UpdateInput(id, body),
                       early[1], early[2])
          /\ UNCHANGED <<db, inflight>>
     ELSE Suspend([op |-> "UpdateItem", request |-> request, id |-> id, body |-> body,
                   row |-> SelectItem(id)])

----------------------------------------------------------------------------
(* DELETE /api/items/:id *)

\* DELETE FROM items as it would act without ON DELETE CASCADE
handleDeleteItemNoCascade(request, id) ==
  /\ NoAuthChange /\ UNCHANGED <<nextItemId, contributions, nextContribId, inflight>>
  /\ items' = IF isAdmin(request) THEN Without(items, id) ELSE items
  /\ last' = jsonResponse("DeleteItem", request, [id |-> id],
                          IF isAdmin(request) THEN 200 ELSE 401, [success |-> TRUE])

handleDeleteItem(request, id) ==
  /\ NoAuthChange /\ UNCHANGED <<nextItemId, nextContribId, inflight>>
  /\ IF ~isAdmin(request)
     THEN /\ last' = jsonResponse("DeleteItem", request, NoInput, 401, Error("Unauthorized"))
          /\ UNCHANGED <<items, contributions>>
     ELSE /\ items' = Without(items, id)
          \* contributions.item_id REFERENCES items(id) ON DELETE CASCADE
          /\ contributions' = [c \in DOMAIN contributions \ ContribsOf(id) |-> contributions[c]]
          /\ last' = jsonResponse("DeleteItem", request, [id |-> id], 200, [success |-> TRUE])

----------------------------------------------------------------------------
(* POST /api/contributions *)

\* the ids of the items the requests of the model name: the first seeded
\* items and the items the admin creates
ItemIdsInPath == (1..MaxSeed) \cup (SeedCount + 1..SeedCount + MaxItems)
ContribIdsInPath == 1..MaxContribs

CreateContributionBodies ==
  [item_id : ItemIdsInPath, contributor_name : Names, amount : Amounts]
  \cup [item_id : {0}, contributor_name : Names, amount : {Exact(1)}]
  \cup [item_id : {1}, contributor_name : {Undefined, " "}, amount : {Exact(1)}]
  \cup [item_id : {1}, contributor_name : Names, amount : {Exact(0), Exact(-1)}]

\* const remaining = item.price_total - item.price_raised
Remaining(item) == Minus(item.price_total, item.price_raised)

\* const appliedAmount = Math.min(amount, remaining)
AppliedAmount(amount, item) == Min(amount, Remaining(item))

\* const newRaised = item.price_raised + appliedAmount
NewRaised(amount, item) == Plus(item.price_raised, AppliedAmount(amount, item))

\* a flag that would need newRaised above price_total
IsFundedStrict(amount, item) ==
  IF Less(item.price_total, NewRaised(amount, item)) THEN 1 ELSE 0

\* const isFunded = newRaised >= item.price_total ? 1 : 0
IsFunded(amount, item) == IF AtMost(item.price_total, NewRaised(amount, item)) THEN 1 ELSE 0

\* a row that would keep the amount of the request
NewContributionRequested(request, body, item) ==
  [item_id |-> body.item_id,
   contributor_name |-> sanitise(body.contributor_name, MAX_NAME_LENGTH),
   amount |-> body.amount,
   contributor_ip |-> getIP(request)]

\* the row of the INSERT
NewContribution(request, body, item) ==
  [item_id |-> body.item_id,
   contributor_name |-> sanitise(body.contributor_name, MAX_NAME_LENGTH),
   amount |-> AppliedAmount(body.amount, item),
   contributor_ip |-> getIP(request)]

\* the handler up to its SELECT, without its test of is_funded
CreateContributionEarlyNoFundedTest(request, body) ==
  IF ~isGuest(request) /\ ~isAdmin(request) THEN <<401, Error("Unauthorized")>>
  ELSE IF body.item_id = 0 THEN <<400, Error("item_id is required")>>
  ELSE IF sanitise(body.contributor_name, MAX_NAME_LENGTH) = ""
       THEN <<400, Error("contributor_name is required")>>
  ELSE IF AtMost(body.amount, Zero) THEN <<400, Error("amount must be > 0")>>
  ELSE IF SelectItem(body.item_id) = NoRow THEN <<404, Error("Item not found")>>
  ELSE <<0, Error("")>>

\* the handler up to its SELECT and its funded test: the response it gives
\* there, or status 0 to go on to the batch
CreateContributionEarly(request, body) ==
  IF ~isGuest(request) /\ ~isAdmin(request) THEN <<401, Error("Unauthorized")>>
  ELSE IF body.item_id = 0 THEN <<400, Error("item_id is required")>>
  ELSE IF sanitise(body.contributor_name, MAX_NAME_LENGTH) = ""
       THEN <<400, Error("contributor_name is required")>>
  ELSE IF AtMost(body.amount, Zero) THEN <<400, Error("amount must be > 0")>>
  ELSE IF SelectItem(body.item_id) = NoRow THEN <<404, Error("Item not found")>>
  ELSE IF SelectItem(body.item_id).is_funded = 1
       THEN <<409, Error("This item is already fully funded")>>
  ELSE <<0, Error("")>>

\* what the log keeps of a contribution request
ContributionInput(body) == [item_id |-> body.item_id, amount |-> body.amount]

\* a batch that would keep its UPDATE when its INSERT fails
CreateContributionBatchPartial(request, body, item) ==
  /\ UNCHANGED <<nextItemId, contributions, nextContribId>>
  /\ items' = IF body.item_id \in DOMAIN items
              THEN [items EXCEPT
                      ![body.item_id].price_raised = Max(Zero, NewRaised(body.amount, item)),
                      ![body.item_id].is_funded = IsFunded(body.amount, item)]
              ELSE items
  /\ last' = jsonResponse("CreateContribution", request, ContributionInput(body), 500,
                          Error("Internal Server Error"))

\* env.DB.batch([INSERT INTO contributions, UPDATE items]) computed from the
\* row `item` read before it, and the response after it. The batch is all or
\* nothing: a row that breaks a constraint of schema.sql makes it throw, which
\* fetch answers with 500
CreateContributionBatch(request, body, item) ==
  LET row == NewContribution(request, body, item)
      ok  == /\ ContributionRowOK(row)
             /\ AtMost(Zero, NewRaised(body.amount, item))
  IN
  /\ UNCHANGED nextItemId
  /\ IF ok
     THEN /\ contributions' = contributions @@ (nextContribId :> row)
          /\ nextContribId' = nextContribId + 1
          /\ items' = [items EXCEPT
                         ![body.item_id].price_raised = NewRaised(body.amount, item),
                         ![body.item_id].is_funded = IsFunded(body.amount, item)]
          /\ last' = jsonResponse("CreateContribution", request, ContributionInput(body), 201,
                       [success |-> TRUE, applied_amount |-> AppliedAmount(body.amount, item),
                        new_raised |-> NewRaised(body.amount, item),
                        is_funded |-> IsFunded(body.amount, item) = 1])
     ELSE /\ UNCHANGED <<items, contributions, nextContribId>>
          /\ last' = jsonResponse("CreateContribution", request, ContributionInput(body), 500,
                                  Error("Internal Server Error"))

\* handleCreateContribution up to the await after its SELECT
BeginCreateContribution(request, body) ==
  LET early == CreateContributionEarly(request, body)
  IN
  /\ NoAuthChange
  /\ IF early[1] # 0
     THEN /\ last' = jsonResponse("CreateContribution", request,
                       IF early[1] \in {401, 400} THEN NoInput ELSE ContributionInput(body),
                       early[1], early[2])
          /\ UNCHANGED <<db, inflight>>
     ELSE Suspend([op |-> "CreateContribution", request |-> request, body |-> body,
                   row |-> SelectItem(body.item_id)])

----------------------------------------------------------------------------
(* DELETE /api/my-contributions/:id and DELETE /api/contributions/:id *)

\* the owner's SELECT without its test of contributor_ip
SelectMyContributionAnyOwner(id, ip) ==
  IF id \in DOMAIN contributions
  THEN [id |-> id, item_id |-> contributions[id].item_id,
        amount |-> contributions[id].amount]
  ELSE NoRow

\* SELECT id, item_id, amount FROM contributions WHERE id=? AND contributor_ip=?
SelectMyContribution(id, ip) ==
  IF id \in DOMAIN contributions /\ contributions[id].contributor_ip = ip
  THEN [id |-> id, item_id |-> contributions[id].item_id,
        amount |-> contributions[id].amount]
  ELSE NoRow

\* SELECT id, item_id, amount FROM contributions WHERE id=?
SelectContribution(id) ==
  IF id \in DOMAIN contributions
  THEN [id |-> id, item_id |-> contributions[id].item_id,
        amount |-> contributions[id].amount]
  ELSE NoRow

\* the UPDATE's price_raised without its MAX(0, ...)
LoweredRaisedNoFloor(raised, amount) == Minus(raised, amount)

\* price_raised = MAX(0, price_raised - ?)
LoweredRaised(raised, amount) == Max(Zero, Minus(raised, amount))

\* an UPDATE that would derive is_funded from the amounts
CancelledItemRederived(row, amount) ==
  [row EXCEPT !.price_raised = LoweredRaised(row.price_raised, amount),
              !.is_funded = IF AtMost(row.price_total,
                                      LoweredRaised(row.price_raised, amount))
                            THEN 1 ELSE 0]

\* UPDATE items SET price_raised = MAX(0, price_raised - ?), is_funded = 0
CancelledItem(row, amount) ==
  [row EXCEPT !.price_raised = LoweredRaised(row.price_raised, amount),
              !.is_funded = 0]

\* what the log keeps of a cancellation: the id, the caller's ip, the row read
\* and the price_raised the UPDATE found
CancelInput(request, id, contribution) ==
  [id |-> id, ip |-> getIP(request), item_id |-> contribution.item_id,
   amount |-> contribution.amount,
   found_raised |-> IF contribution.item_id \in DOMAIN items
                    THEN items[contribution.item_id].price_raised ELSE Zero]

\* env.DB.batch([DELETE FROM contributions WHERE id=?, UPDATE items ... WHERE id=?])
\* for the row `contribution` read before it, and the response after it
\* (MAX(0, ...) keeps CHECK(price_raised >= 0) satisfied, the batch cannot throw)
CancelBatch(op, request, id, contribution) ==
  /\ UNCHANGED <<nextItemId, nextContribId>>
  /\ contributions' = Without(contributions, id)
  /\ items' = IF contribution.item_id \in DOMAIN items
              THEN [items EXCEPT ![contribution.item_id] =
                      CancelledItem(items[contribution.item_id], contribution.amount)]
              ELSE items
  /\ last' = jsonResponse(op, request, CancelInput(request, id, contribution),
                          200, [success |-> TRUE])

\* handleDeleteMyContribution up to the await after its SELECT
BeginDeleteMyContribution(request, id) ==
  LET contribution == SelectMyContribution(id, getIP(request))
  IN
  /\ NoAuthChange
  /\ IF ~isGuest(request) /\ ~isAdmin(request)
     THEN /\ last' = jsonResponse("DeleteMyContribution", request, NoInput,
                                  401, Error("Unauthorized"))
          /\ UNCHANGED <<db, inflight>>
     ELSE IF contribution = NoRow
     THEN /\ last' = jsonResponse("DeleteMyContribution", request,
                                  [id |-> id, ip |-> getIP(request)],
                                  404, Error("Não encontrado"))
          /\ UNCHANGED <<db, inflight>>
     ELSE Suspend([op |-> "DeleteMyContribution", request |-> request, id |-> id,
                   row |-> contribution])

\* handleAdminDeleteContribution up to the await after its SELECT
BeginAdminDeleteContribution(request, id) ==
  LET contribution == SelectContribution(id)
  IN
  /\ NoAuthChange
  /\ IF ~isAdmin(request)
     THEN /\ last' = jsonResponse("AdminDeleteContribution", request, NoInput,
                                  401, Error("Unauthorized"))
          /\ UNCHANGED <<db, inflight>>
     ELSE IF contribution = NoRow
     THEN /\ last' = jsonResponse("AdminDeleteContribution", request,
                                  [id |-> id, ip |-> getIP(request)],
                                  404, Error("Not found"))
          /\ UNCHANGED <<db, inflight>>
     ELSE Suspend([op |-> "AdminDeleteContribution", request |-> request, id |-> id,
                   row |-> contribution])

\* the handlers of the ledger that write after their SELECT
LedgerOps == {"CreateContribution", "UpdateItem", "DeleteMyContribution",
              "AdminDeleteContribution"}

\* the write of the suspended handler p, and its response
Commit(p) ==
  /\ Resumed(p)
  /\ p.op \in LedgerOps
  /\ NoAuthChange
  /\ CASE p.op = "CreateContribution" -> CreateContributionBatch(p.request, p.body, p.row)
       [] p.op = "UpdateItem" -> UpdateItemWrite(p.request, p.id, p.body, p.row)
       [] OTHER -> CancelBatch(p.op, p.request, p.id, p.row)

----------------------------------------------------------------------------
(* GET /api/contributions and GET /api/my-contributions *)

\* FROM contributions c JOIN items i ON c.item_id = i.id
JoinedContribs == {c \in DOMAIN contributions : contributions[c].item_id \in DOMAIN items}

\* ... WHERE c.contributor_ip = ?
MyContributions(ip) == {c \in JoinedContribs : contributions[c].contributor_ip = ip}

handleGetContributions(request) ==
  /\ NoAuthChange /\ UNCHANGED <<db, inflight>>
  /\ IF ~isAdmin(request)
     THEN last' = jsonResponse("GetContributions", request, NoInput, 401,
                               Error("Unauthorized"))
     ELSE last' = jsonResponse("GetContributions", request, NoInput, 200,
                               [ids |-> JoinedContribs])

handleGetMyContributions(request) ==
  /\ NoAuthChange /\ UNCHANGED <<db, inflight>>
  /\ IF ~isGuest(request) /\ ~isAdmin(request)
     THEN last' = jsonResponse("GetMyContributions", request, NoInput, 401,
                               Error("Unauthorized"))
     ELSE last' = jsonResponse("GetMyContributions", request, NoInput, 200,
                               [ids |-> MyContributions(getIP(request))])

----------------------------------------------------------------------------
(* POST /api/chat. The handler reads the items, then the caller's           *)
(* contributions, then calls the responder and the extractor, which touch   *)
(* no table: it is split at the await between its two SELECTs               *)

Null == [null |-> TRUE]

ChatBodies == [message : {"Quero contribuir", Undefined}]

\* what env.AI.run does: it answers with a response, answers without one, or throws
ModelOutcomes == {"response", "no response", "throws"}

\* JSON.parse(jsonMatch[0]) of the extractor's text, or Null when nothing matched.
\* The extractor is a language model: a cancel object carries the item_title
\* and amount it made up, and a contribute object may carry the fields of a
\* cancel object as well
ExtractorData ==
  {Null, [action |-> "other"]}
  \cup [action : {"contribute"}, item_id : {0} \cup ItemIdsInPath, name : {"Ana"},
         amount : {Exact(2)}]
  \cup [action : {"contribute"}, item_id : {1}, name : {"Ana", ""},
         amount : {Exact(0), Exact(2)}]
  \cup [action : {"contribute"}, item_id : {1}, name : {"Ana"}, amount : {Exact(2)},
         contribution_id : {1}, item_title : {"Outro"}]
  \cup [action : {"cancel"}, contribution_id : 1..MaxContribs,
         item_title : {"Outro"}, amount : {Exact(MaxAmount + 1)}]

\* SELECT c.id, c.item_id, c.contributor_name, c.amount, c.message, i.title AS
\* item_title FROM contributions c JOIN items i ... WHERE c.contributor_ip = ?
MyContributionRows(ip) ==
  [c \in MyContributions(ip) |->
     [item_id |-> contributions[c].item_id, amount |-> contributions[c].amount,
      item_title |-> items[contributions[c].item_id].title]]

\* the validation of a "contribute" proposal without its test of is_funded
ContributionPendingFundedToo(data, snapshot) ==
  IF /\ data.item_id \in DOMAIN snapshot
     /\ data.name # ""
     /\ Less(Zero, data.amount)
  THEN [item_id |-> data.item_id, item_title |-> snapshot[data.item_id].title,
        name |-> data.name, amount |-> data.amount]
  ELSE Null

\* contributionPending after the validation of a "contribute" proposal against
\* the items read by the first SELECT
ContributionPending(data, snapshot) ==
  IF /\ data.item_id \in DOMAIN snapshot
     /\ data.name # ""
     /\ Less(Zero, data.amount)
     /\ snapshot[data.item_id].is_funded = 0
  THEN [item_id |-> data.item_id, item_title |-> snapshot[data.item_id].title,
        name |-> data.name, amount |-> data.amount]
  ELSE Null

\* a cancel proposal that would repeat the item_title and amount of the
\* extractor's object
CancellationPendingFromExtractor(data, mine) ==
  IF data.contribution_id \in DOMAIN mine
  THEN [contribution_id |-> data.contribution_id,
        item_title |-> data.item_title,
        amount |-> data.amount]
  ELSE Null

\* cancellationPending after the validation of a "cancel" proposal against the
\* caller's contributions read by the second SELECT
CancellationPending(data, mine) ==
  IF data.contribution_id \in DOMAIN mine
  THEN [contribution_id |-> data.contribution_id,
        item_title |-> mine[data.contribution_id].item_title,
        amount |-> mine[data.contribution_id].amount]
  ELSE Null

\* the turn as the log keeps it: the rows of the two SELECTs, what the two
\* model calls did and the object parsed out of the extractor's text
ChatInput(snapshot, mine, responder, extractor, data) ==
  [items |-> snapshot, mine |-> mine,
   responder |-> responder, extractor |-> extractor, data |-> data]

\* the parse of the extractor's text without its try/catch: text that is not
\* JSON makes the turn throw
ChatResponseNoCatch(snapshot, mine, responder, extractor, data) ==
  IF responder = "throws" \/ extractor = "throws" \/ (extractor = "response" /\ data = Null)
  THEN <<500, Error("Internal Server Error")>>
  ELSE <<200, [reply |-> IF responder = "response" THEN "reply" ELSE "fallback",
               contribution_pending |->
                 IF extractor = "response" /\ data.action = "contribute"
                 THEN ContributionPending(data, snapshot) ELSE Null,
               cancellation_pending |->
                 IF extractor = "response" /\ data.action = "cancel"
                 THEN CancellationPending(data, mine)
                 ELSE Null]>>

\* the turn with "if" in place of "else if" and the cancel branch keyed on the
\* object's contribution_id: an object with both kinds of fields surfaces twice
ChatResponseBothBranches(snapshot, mine, responder, extractor, data) ==
  IF responder = "throws" \/ extractor = "throws"
  THEN <<500, Error("Internal Server Error")>>
  ELSE <<200, [reply |-> IF responder = "response" THEN "reply" ELSE "fallback",
               contribution_pending |->
                 IF extractor = "response" /\ data # Null /\ data.action = "contribute"
                 THEN ContributionPending(data, snapshot) ELSE Null,
               cancellation_pending |->
                 IF extractor = "response" /\ Has(data, "contribution_id")
                 THEN CancellationPending(data, mine)
                 ELSE Null]>>

\* the turn from the responder's call to the response: a call that throws is
\* caught by fetch only; a responder without .response gives the canned reply,
\* an extractor without .response gives "null"
ChatResponse(snapshot, mine, responder, extractor, data) ==
  LET reply == IF responder = "response" THEN "reply" ELSE "fallback"
  IN
  IF responder = "throws" \/ extractor = "throws"
  THEN <<500, Error("Internal Server Error")>>
  ELSE <<200, [reply |-> reply,
               contribution_pending |->
                 IF extractor = "response" /\ data # Null /\ data.action = "contribute"
                 THEN ContributionPending(data, snapshot) ELSE Null,
               cancellation_pending |->
                 IF extractor = "response" /\ data # Null /\ data.action = "cancel"
                 THEN CancellationPending(data, mine) ELSE Null]>>

\* handleChat up to the await after its SELECT of the items
BeginChat(request, body) ==
  /\ NoAuthChange
  /\ IF ~isGuest(request) /\ ~isAdmin(request)
     THEN /\ last' = jsonResponse("Chat", request, NoInput, 401, Error("Unauthorized"))
          /\ UNCHANGED <<db, inflight>>
     ELSE IF sanitise(body.message, MAX_MESSAGE_LENGTH) = ""
     THEN /\ last' = jsonResponse("Chat", request, NoInput, 400, Error("message is required"))
          /\ UNCHANGED <<db, inflight>>
     ELSE Suspend([op |-> "Chat", request |-> request, items |-> items])

\* handleChat from the await after its SELECT of the items to the await after
\* its SELECT of the caller's contributions: the turn now holds both snapshots
AwaitMyContributions(p) ==
  /\ BagIn(p, inflight) /\ p.op = "Chat"
  /\ inflight' = (inflight (-) SetToBag({p}))
                   (+) SetToBag({[op |-> "ChatModels", request |-> p.request,
                                  items |-> p.items,
                                  mine |-> MyContributionRows(getIP(p.request))]})
  /\ NoAuthChange /\ UNCHANGED db
  /\ last' = Awaiting("Chat", p.request)

\* the response of the turn p, which holds the rows of its two SELECTs, as the
\* log keeps it: the two model calls, the parse and the validation
ChatTurn(p, responder, extractor, data) ==
  LET response == ChatResponse(p.items, p.mine, responder, extractor, data)
  IN jsonResponse("Chat", p.request,
                  ChatInput(p.items, p.mine, responder, extractor, data),
                  response[1], response[2])

\* a turn that would itself apply the contribution it proposes
CommitChatApplying(p, responder, extractor, data) ==
  LET turn    == ChatTurn(p, responder, extractor, data)
      applies == /\ turn.status = 200
                 /\ turn.body.contribution_pending # Null
                 /\ data.item_id \in DOMAIN items
  IN
  /\ Resumed(p) /\ p.op = "ChatModels"
  /\ NoAuthChange /\ UNCHANGED <<nextItemId, contributions, nextContribId>>
  /\ items' = IF applies
              THEN [items EXCEPT ![data.item_id].price_raised = Plus(@, data.amount)]
              ELSE items
  /\ last' = turn

\* handleChat from the await after its second SELECT on: the model calls return
\* and the turn is answered from its two snapshots; it writes nothing
CommitChat(p, responder, extractor, data) ==
  /\ Resumed(p) /\ p.op = "ChatModels"
  /\ NoAuthChange /\ UNCHANGED db
  /\ last' = ChatTurn(p, responder, extractor, data)

----------------------------------------------------------------------------
(* The registry and the ledger with requests arriving one after another:    *)
(* a handler is started when none is suspended                              *)

\* the bounds cap the AUTOINCREMENT counters: a request that would take an id
\* beyond them is not part of the model
WithinBounds == /\ nextItemId' <= SeedCount + MaxItems + 1
                /\ nextContribId' <= MaxContribs + 1

OneAtATime == inflight = EmptyBag

LedgerCallers == {Guest1, Admin}

CreateItem == \E request \in LedgerCallers, body \in CreateItemBodies :
                OneAtATime /\ handleCreateItem(request, body) /\ WithinBounds
UpdateItem == \E request \in LedgerCallers, id \in ItemIdsInPath, body \in UpdateItemBodies :
                OneAtATime /\ BeginUpdateItem(request, id, body)
DeleteItem == \E request \in LedgerCallers, id \in ItemIdsInPath :
                OneAtATime /\ handleDeleteItem(request, id)
CreateContribution == \E request \in LedgerCallers, body \in CreateContributionBodies :
                        OneAtATime /\ BeginCreateContribution(request, body)
AdminDeleteContribution == \E request \in LedgerCallers, id \in ContribIdsInPath :
                             OneAtATime /\ BeginAdminDeleteContribution(request, id)
DeleteMyContribution == \E request \in LedgerCallers, id \in ContribIdsInPath :
                          OneAtATime /\ BeginDeleteMyContribution(request, id)
CommitWrite == \E p \in BagToSet(inflight) : Commit(p) /\ WithinBounds

Next ==
  \/ CreateItem
  \/ UpdateItem
  \/ DeleteItem
  \/ CreateContribution
  \/ AdminDeleteContribution
  \/ DeleteMyContribution
  \/ CommitWrite

Spec == Init /\ [][Next]_vars

----------------------------------------------------------------------------
(* Concurrent requests on the first seeded item: contributions, owner and   *)
(* admin cancellations, admin edits and the item's deletion, interleaved at *)
(* the awaits of the handlers                                               *)

\* an edit that keeps the title of the first seeded item
SeedTitle == Seeds[1].title

ConcUpdateBodies ==
  [title : {SeedTitle}, price_total : {Exact(1)}]
  \cup [title : {SeedTitle}, is_funded : {1}]

ConcAddBodies == [item_id : {1}, contributor_name : Names,
                  amount : {Amount29_20, Amount100}]

ConcAdd == \E body \in ConcAddBodies : BeginCreateContribution(Guest1, body)
ConcCancelMine == \E id \in ContribIdsInPath : BeginDeleteMyContribution(Guest1, id)
ConcCancelAdmin == \E id \in ContribIdsInPath : BeginAdminDeleteContribution(Admin, id)
ConcUpdate == \E body \in ConcUpdateBodies : BeginUpdateItem(Admin, 1, body)
ConcDeleteItem == handleDeleteItem(Admin, 1)
ConcCommit == \E p \in BagToSet(inflight) : Commit(p) /\ WithinBounds

NextConc ==
  \/ ConcAdd
  \/ ConcCancelMine
  \/ ConcCancelAdmin
  \/ ConcUpdate
  \/ ConcDeleteItem
  \/ ConcCommit

SpecConc == Init /\ [][NextConc]_vars

----------------------------------------------------------------------------
(* Contributions of two guests to the first seeded item, interleaved        *)

AddBegin == \E request \in {Guest1, Guest2}, body \in ConcAddBodies :
              BeginCreateContribution(request, body)
AddCommit == \E p \in BagToSet(inflight) : Commit(p) /\ WithinBounds

NextAdd == AddBegin \/ AddCommit

SpecAdd == Init /\ [][NextAdd]_vars

----------------------------------------------------------------------------
(* One contribution and one cancellation at a time, in flight together      *)

InFlight(ops) == {p \in BagToSet(inflight) : p.op \in ops}

\* whole amounts, which the item's price_raised adds up without rounding
AddAlone == /\ InFlight({"CreateContribution"}) = {}
            /\ \E amount \in {Exact(1), Exact(MaxAmount)} :
                 BeginCreateContribution(Guest1,
                   [item_id |-> 1, contributor_name |-> "Ana", amount |-> amount])
CancelAlone == /\ InFlight({"DeleteMyContribution", "AdminDeleteContribution"}) = {}
               /\ (ConcCancelMine \/ ConcCancelAdmin)

NextAddCancel == AddAlone \/ CancelAlone \/ ConcCommit

SpecAddCancel == Init /\ [][NextAddCancel]_vars

----------------------------------------------------------------------------
(* One admin edit of the title at a time, between its SELECT and its UPDATE *)
(* while contributions and cancellations commit                             *)

EditAlone == /\ InFlight({"UpdateItem"}) = {}
             /\ \E title \in Titles : BeginUpdateItem(Admin, 1, [title |-> title])

NextEdit == ConcAdd \/ ConcCancelMine \/ EditAlone \/ ConcCommit

SpecEdit == Init /\ [][NextEdit]_vars

----------------------------------------------------------------------------
(* POST /api/admin/auth and POST /api/guest/auth. Each handler computes the *)
(* day, awaits its SELECT of the counter, then the request body, then its   *)
(* DELETE or its upsert                                                     *)

AuthBodies == [password : {ADMIN_PASSWORD, GUEST_PASSWORD}]

\* const ip = request.headers.get("CF-Connecting-IP") ?? "unknown"
AuthIP(request) ==
  IF request.CF_Connecting_IP # NoHeader THEN request.CF_Connecting_IP ELSE "unknown"

\* a guest limiter that would count under the admin's prefix
GuestKeyAdminPrefix(request) == "admin:" \o AuthIP(request)

\* `admin:${ip}` and `guest:${ip}`
AdminKey(request) == "admin:" \o AuthIP(request)
GuestKey(request) == "guest:" \o AuthIP(request)

\* const attempts = row?.count ?? 0, for SELECT count FROM chat_rate_limit WHERE ip=? AND day=?
Attempts(key, day) == IF <<key, day>> \in DOMAIN rate THEN rate[<<key, day>>] ELSE 0

LimitedAbove(attempts) == attempts > LOGIN_LIMIT

\* if (attempts >= 10)
Limited(attempts) == attempts >= LOGIN_LIMIT

RateKept(key, day) == rate

\* DELETE FROM chat_rate_limit WHERE ip=? AND day=?
RateDeleted(key, day) == [k \in DOMAIN rate \ {<<key, day>>} |-> rate[k]]

\* INSERT INTO chat_rate_limit (ip, day, count) VALUES (?, ?, 1)
\*   ON CONFLICT(ip, day) DO UPDATE SET count = count + 1
RateIncremented(key, day) ==
  IF <<key, day>> \in DOMAIN rate
  THEN [rate EXCEPT ![<<key, day>>] = rate[<<key, day>>] + 1]
  ELSE rate @@ (<<key, day>> :> 1)

\* what the log keeps of an auth request: the counter key and the day it
\* computed, the attempts its SELECT found and the password sent
AuthInput(key, day, attempts, body) ==
  [key |-> key, day |-> day, attempts |-> attempts, password |-> body.password]

\* env.ADMIN_PASSWORD or env.GUEST_PASSWORD: what an auth endpoint compares with
SecretOf(op) == IF op = "AdminAuth" THEN ADMIN_PASSWORD ELSE GUEST_PASSWORD

\* the handler up to `await request.json()`: 429 at once, or suspended with the
\* day it computed and the attempts it read
BeginAuth(op, request, key, body) ==
  /\ UNCHANGED <<rate, today>>
  /\ IF Limited(Attempts(key, today))
     THEN /\ last' = jsonResponse(op, request,
                                  AuthInput(key, today, Attempts(key, today), body), 429,
                                  Error("Too many attempts. Try again tomorrow."))
          /\ UNCHANGED <<db, inflight>>
     ELSE Suspend([op |-> op, request |-> request, key |-> key, day |-> today,
                   body |-> body, attempts |-> Attempts(key, today)])

\* the rest of the suspended handler p: the comparison, the statement it runs
\* on the counter as it is now, and the response
CommitAuth(p) ==
  /\ Resumed(p)
  /\ p.op \in {"AdminAuth", "GuestAuth"}
  /\ UNCHANGED <<db, today, authUsed>>
  /\ IF p.body.password = SecretOf(p.op)
     THEN /\ rate' = RateDeleted(p.key, p.day)
          /\ last' = jsonResponse(p.op, p.request,
                                  AuthInput(p.key, p.day, p.attempts, p.body),
                                  200, [success |-> TRUE])
     ELSE /\ rate' = RateIncremented(p.key, p.day)
          /\ last' = jsonResponse(p.op, p.request,
                                  AuthInput(p.key, p.day, p.attempts, p.body), 401,
                                  Error(IF p.op = "AdminAuth" THEN "Incorrect password"
                                        ELSE "Palavra-passe incorreta"))

handleAdminAuth(request, body) == BeginAuth("AdminAuth", request, AdminKey(request), body)

handleGuestAuth(request, body) == BeginAuth("GuestAuth", request, GuestKey(request), body)

\* new Date().toISOString().slice(0, 10) moves on at midnight UTC
Midnight ==
  /\ today < MaxDay
  /\ today' = today + 1
  /\ last' = jsonResponse("midnight", Anonymous, NoInput, 0, [none |-> TRUE])
  /\ UNCHANGED <<db, rate, inflight, authUsed>>

----------------------------------------------------------------------------
(* Auth requests from two addresses over two days, one after another; the   *)
(* model handles at most MaxAuthRequests of them in a run                   *)

AdminAuth == \E request \in {Anonymous, Guest1}, body \in AuthBodies :
               /\ OneAtATime
               /\ authUsed < MaxAuthRequests
               /\ authUsed' = authUsed + 1
               /\ handleAdminAuth(request, body)
GuestAuth == \E request \in {Guest1}, body \in AuthBodies :
               /\ OneAtATime
               /\ authUsed < MaxAuthRequests
               /\ authUsed' = authUsed + 1
               /\ handleGuestAuth(request, body)
AuthCommit == \E p \in BagToSet(inflight) : CommitAuth(p)

NextAuth == AdminAuth \/ GuestAuth \/ AuthCommit \/ Midnight

SpecAuth == Init /\ [][NextAuth]_vars

----------------------------------------------------------------------------
(* Auth requests of one client in flight together                           *)

ConcAdminAuth == \E body \in AuthBodies :
                   handleAdminAuth(Guest1, body) /\ UNCHANGED authUsed
ConcGuestAuth == \E body \in AuthBodies :
                   handleGuestAuth(Guest1, body) /\ UNCHANGED authUsed
ConcAuthCommit == \E p \in BagToSet(inflight) : CommitAuth(p)

NextAuthConc == ConcAdminAuth \/ ConcGuestAuth \/ ConcAuthCommit

SpecAuthConc == Init /\ [][NextAuthConc]_vars

----------------------------------------------------------------------------
(* The worker: every guarded handler, called by every caller, interleaved   *)
(* at the awaits                                                            *)

WorkerCreateBodies == [title : Titles, price_total : {Exact(MaxPrice)}]
WorkerUpdateBodies == [title : {SeedTitle}, is_funded : {1}]
WorkerAddBodies == [item_id : {1}, contributor_name : Names, amount : {Exact(MaxAmount)}]

\* the callers of the admin's handlers and of the guests' handlers
AdminCallers == {Anonymous, Guest2, Admin}
GuestCallers == {Anonymous, Guest1}

WorkerCreateItem == \E request \in AdminCallers, body \in WorkerCreateBodies :
                      handleCreateItem(request, body) /\ WithinBounds
WorkerUpdateItem == \E request \in AdminCallers, body \in WorkerUpdateBodies :
                      BeginUpdateItem(request, 1, body)
WorkerDeleteItem == \E request \in AdminCallers : handleDeleteItem(request, SeedCount + 1)
WorkerAdd == \E request \in GuestCallers \cup {Guest2}, body \in WorkerAddBodies :
               BeginCreateContribution(request, body)
WorkerCancelAdmin == \E request \in AdminCallers, id \in 1..MaxWorkerContribs :
                       BeginAdminDeleteContribution(request, id)
WorkerCancelMine == \E request \in GuestCallers, id \in 1..MaxWorkerContribs :
                      BeginDeleteMyContribution(request, id)
WorkerCommit == \E p \in BagToSet(inflight) :
                  Commit(p) /\ nextContribId' <= MaxWorkerContribs + 1
GetContributions == \E request \in AdminCallers : handleGetContributions(request)
GetMyContributions == \E request \in GuestCallers : handleGetMyContributions(request)

\* what the two model calls of a turn do: <<responder, extractor, parsed data>>
ChatTurns ==
  ({"response"} \X {"response"} \X ExtractorData)
  \cup (ModelOutcomes \X ModelOutcomes \X {Null})

Chat == \E request \in GuestCallers, body \in ChatBodies : BeginChat(request, body)
ChatRead == \E p \in BagToSet(inflight) : AwaitMyContributions(p)
ChatAnswer == \E p \in BagToSet(inflight), turn \in ChatTurns :
                CommitChat(p, turn[1], turn[2], turn[3])

NextWorker ==
  \/ WorkerCreateItem
  \/ WorkerUpdateItem
  \/ WorkerDeleteItem
  \/ WorkerAdd
  \/ WorkerCancelAdmin
  \/ WorkerCancelMine
  \/ WorkerCommit
  \/ GetContributions
  \/ GetMyContributions
  \/ Chat
  \/ ChatRead
  \/ ChatAnswer

SpecWorker == Init /\ [][NextWorker]_vars

----------------------------------------------------------------------------
(* Guests at different network origins. The worker sees of an origin only   *)
(* the address headers of its requests: the guest at ip1 and two guests     *)
(* whose requests carry neither CF-Connecting-IP nor X-Forwarded-For (the   *)
(* second one's client fills X-Admin-Password as well). Each guest          *)
(* contributes under its own name                                           *)

Guest3 == Request(NoHeader, GUEST_PASSWORD, NoHeader, NoHeader)
Guest4 == Request(GUEST_PASSWORD, GUEST_PASSWORD, NoHeader, NoHeader)

OwnerCallers == {Guest1, Guest3, Guest4}

NameOf(request) ==
  CASE request = Guest1 -> "Ana"
    [] request = Guest3 -> "Rui"
    [] request = Guest4 -> "Eva"
    [] OTHER -> ""

\* the extractor proposes the cancellation of a contribution
OwnerProposals == [action : {"cancel"}, contribution_id : ContribIdsInPath,
                   item_title : {"Outro"}, amount : {Exact(1)}]

OwnerAdd == \E caller \in OwnerCallers :
              BeginCreateContribution(caller,
                [item_id |-> 1, contributor_name |-> NameOf(caller), amount |-> Exact(1)])
OwnerList == \E caller \in OwnerCallers : handleGetMyContributions(caller)
OwnerCancel == \E caller \in OwnerCallers, id \in ContribIdsInPath :
                 BeginDeleteMyContribution(caller, id)
OwnerChat == \E caller \in OwnerCallers :
               BeginChat(caller, [message |-> "Quero cancelar"])
OwnerChatRead == \E p \in BagToSet(inflight) : AwaitMyContributions(p)
OwnerChatAnswer == \E p \in BagToSet(inflight), data \in OwnerProposals :
                     CommitChat(p, "response", "response", data)
OwnerCommit == \E p \in BagToSet(inflight) :
                 Commit(p) /\ WithinBounds

NextOwner ==
  OwnerAdd \/ OwnerList \/ OwnerCancel \/ OwnerChat \/ OwnerChatRead \/ OwnerChatAnswer \/ OwnerCommit

SpecOwner == Init /\ [][NextOwner]_vars

----------------------------------------------------------------------------
(* The extractor's text. A text is a sequence of pieces: an opening brace, a *)
(* closing brace, a stretch of prose without braces, or the members of a     *)
(* flat proposal object (its "key":value list, without the braces)           *)

Members == {"contribute", "cancel"}
TextPieces == {"{", "}", "prose"} \cup Members

\* (extractorResponse as { response?: string }).response
ExtractorTexts == UNION {[1..n -> TextPieces] : n \in 0..MaxText}

\* the object a members list stands for
MemberData(members) ==
  IF members = "contribute"
  THEN [action |-> "contribute", item_id |-> 1, name |-> "Ana", amount |-> Exact(1)]
  ELSE [action |-> "cancel", contribution_id |-> 1, item_title |-> "Outro",
        amount |-> Exact(1)]

\* extractorRaw.match(/\{[\s\S]*?\}/): from the first "{" to the first "}"
\* after it; <<>> when there is none
jsonMatch(extractorRaw) ==
  LET opens  == {i \in 1..Len(extractorRaw) : extractorRaw[i] = "{"}
      first  == CHOOSE i \in opens : \A j \in opens : i <= j
      closes == {i \in 1..Len(extractorRaw) : i > first /\ extractorRaw[i] = "}"}
      last_  == CHOOSE i \in closes : \A j \in closes : i <= j
  IN
  IF opens = {} THEN <<>>
  ELSE IF closes = {} THEN <<>>
  ELSE SubSeq(extractorRaw, first, last_)

\* JSON.parse(jsonMatch[0]) inside the try: "{}" is an object without action,
\* braces around anything but one members list make JSON.parse throw, and the
\* catch leaves both proposals null as a missing match does
ParsedData(match) ==
  IF match = <<>> THEN Null
  ELSE IF Len(match) = 2 THEN [action |-> Undefined]
  ELSE IF Len(match) = 3 /\ match[2] \in Members THEN MemberData(match[2])
  ELSE Null

\* the response of the turn p with both model calls answering and the
\* extractor's text given; the log keeps the text as well
CommitChatRaw(p, extractorRaw) ==
  LET turn == ChatTurn(p, "response", "response", ParsedData(jsonMatch(extractorRaw)))
  IN
  /\ Resumed(p) /\ p.op = "ChatModels"
  /\ NoAuthChange /\ UNCHANGED db
  /\ last' = [turn EXCEPT !.input = [raw |-> extractorRaw] @@ @]

ChatRaw == BeginChat(Guest1, [message |-> "Quero contribuir"])
ChatRawRead == \E p \in BagToSet(inflight) : AwaitMyContributions(p)
ChatRawAnswer == \E p \in BagToSet(inflight), extractorRaw \in ExtractorTexts :
                   CommitChatRaw(p, extractorRaw)

NextExtract == ChatRaw \/ ChatRawRead \/ ChatRawAnswer

SpecExtract == Init /\ [][NextExtract]_vars

----------------------------------------------------------------------------
(* Proposals and their confirmation. The guest at ip2 talks to the chat,    *)
(* keeps each proposal it is shown (the bag holds them) and confirms it     *)
(* with a request of its own to the ledger; meanwhile the guest at ip1      *)
(* contributes and the admin cancels                                        *)

Proposals == {"ContributionProposal", "CancellationProposal"}

\* the response of the turn p of the guest at ip2, both model calls
\* answering; the client keeps the proposal surfaced
ChatSurfacing(p, data) ==
  LET turn    == ChatTurn(p, "response", "response", data)
      pending == IF turn.body.contribution_pending # Null
                 THEN {[op |-> "ContributionProposal",
                        pending |-> turn.body.contribution_pending]}
                 ELSE IF turn.body.cancellation_pending # Null
                 THEN {[op |-> "CancellationProposal",
                        pending |-> turn.body.cancellation_pending]}
                 ELSE {}
  IN
  /\ BagIn(p, inflight) /\ p.op = "ChatModels"
  /\ inflight' = (inflight (-) SetToBag({p})) (+) SetToBag(pending)
  /\ NoAuthChange /\ UNCHANGED db
  /\ last' = turn

\* the body of the POST /api/contributions that confirms a contribute proposal
ConfirmBody(pending) ==
  [item_id |-> pending.item_id, contributor_name |-> pending.name,
   amount |-> pending.amount]

\* a confirmation that would skip the handler's own tests and go on to the batch
ConfirmContributionTrusted(p) ==
  /\ BagIn(p, inflight) /\ p.op = "ContributionProposal"
  /\ NoAuthChange
  /\ IF SelectItem(p.pending.item_id) = NoRow
     THEN /\ UNCHANGED <<db, inflight>>
          /\ last' = jsonResponse("CreateContribution", Guest2,
                                  ContributionInput(ConfirmBody(p.pending)),
                                  404, Error("Item not found"))
     ELSE Suspend([op |-> "CreateContribution", request |-> Guest2,
                   body |-> ConfirmBody(p.pending),
                   row |-> SelectItem(p.pending.item_id)])

\* the client confirms the contribute proposal p: POST /api/contributions
ConfirmContribution(p) ==
  /\ BagIn(p, inflight) /\ p.op = "ContributionProposal"
  /\ BeginCreateContribution(Guest2, ConfirmBody(p.pending))

\* the client confirms the cancel proposal p: DELETE /api/my-contributions/:id
ConfirmCancellation(p) ==
  /\ BagIn(p, inflight) /\ p.op = "CancellationProposal"
  /\ BeginDeleteMyContribution(Guest2, p.pending.contribution_id)

\* the client drops a proposal
Discard == \E p \in BagToSet(inflight) :
             /\ p.op \in Proposals
             /\ inflight' = inflight (-) SetToBag({p})
             /\ UNCHANGED <<db, rate, today, authUsed, last>>

\* what the extractor proposes to the guest at ip2
ConfirmProposals ==
  [action : {"contribute"}, item_id : {1}, name : {"Eva"}, amount : {Exact(2)}]
  \cup [action : {"cancel"}, contribution_id : ContribIdsInPath,
         item_title : {"Outro"}, amount : {Exact(2)}]

Propose == BeginChat(Guest2, [message |-> "Quero contribuir"])
ProposeRead == \E p \in BagToSet(inflight) : AwaitMyContributions(p)
Surface == \E p \in BagToSet(inflight), data \in ConfirmProposals :
             ChatSurfacing(p, data)
Confirm == \E p \in BagToSet(inflight) : ConfirmContribution(p) \/ ConfirmCancellation(p)
OtherAdd == BeginCreateContribution(Guest1,
              [item_id |-> 1, contributor_name |-> "Ana", amount |-> Amount100])
OtherCancel == \E id \in ContribIdsInPath : BeginAdminDeleteContribution(Admin, id)
ConfirmCommit == \E p \in BagToSet(inflight) :
                   Commit(p) /\ WithinBounds

NextConfirm ==
  Propose \/ ProposeRead \/ Surface \/ Confirm \/ Discard \/ OtherAdd \/ OtherCancel \/ ConfirmCommit

SpecConfirm == Init /\ [][NextConfirm]_vars

----------------------------------------------------------------------------
(* GET /api/items. The rows carry the two columns of schema.sql the listing *)
(* is about: created_at, which datetime('now') fills to the second (the     *)
(* seeded rows are inserted by one statement), and is_generic, which no     *)
(* statement of the worker sets, so that it keeps its DEFAULT 0             *)

GENERIC_DONATION_TITLE == "Doação Geral para Mobilía/Obras"

ListTitles == {"Berco", GENERIC_DONATION_TITLE}

\* the registry after the admin has deleted all but the first seeded items
InitList ==
  /\ items = [id \in 1..MaxListed |-> Seeds[id] @@ [is_generic |-> 0, created_at |-> 1]]
  /\ nextItemId = SeedCount + 1
  /\ contributions = <<>>
  /\ nextContribId = 1
  /\ rate = <<>>
  /\ today = 1
  /\ inflight = EmptyBag
  /\ authUsed = 0
  /\ last = NoResponse

\* CASE WHEN title = GENERIC_DONATION_TITLE THEN 1 ELSE 0 END, is_funded, created_at
OrderKey(row) ==
  <<IF row.title = GENERIC_DONATION_TITLE THEN 1 ELSE 0, row.is_funded, row.created_at>>

\* the three ORDER BY terms, all ASC, compared in turn
KeyBefore(a, b) ==
  \/ a[1] < b[1]
  \/ a[1] = b[1] /\ a[2] < b[2]
  \/ a[1] = b[1] /\ a[2] = b[2] /\ a[3] < b[3]

\* the result of SELECT * FROM items ORDER BY ..., as the ids of the rows in
\* order: rows with equal keys come out in the order of the table scan, by rowid
OrderedItems ==
  {rows \in [1..Cardinality(DOMAIN items) -> DOMAIN items] :
     /\ \A i, j \in DOMAIN rows : i # j => rows[i] # rows[j]
     /\ \A i, j \in DOMAIN rows :
          i < j => \/ KeyBefore(OrderKey(items[rows[i]]), OrderKey(items[rows[j]]))
                   \/ /\ OrderKey(items[rows[i]]) = OrderKey(items[rows[j]])
                      /\ rows[i] < rows[j]}

handleGetItems(request) ==
  /\ NoAuthChange /\ UNCHANGED <<db, inflight>>
  /\ \E rows \in OrderedItems :
       last' = jsonResponse("GetItems", request, NoInput, 200, [rows |-> rows])

ListUpdateBodies == [title : ListTitles] \cup [title : {"Berco"}, is_funded : {0, 1}]

GetItems == \E request \in {Anonymous, Admin} : handleGetItems(request)
ListUpdate == \E id \in 1..MaxListed, body \in ListUpdateBodies :
                OneAtATime /\ BeginUpdateItem(Admin, id, body)
ListCommit == \E p \in BagToSet(inflight) : Commit(p)

NextList == GetItems \/ ListUpdate \/ ListCommit

SpecList == InitList /\ [][NextList]_vars

----------------------------------------------------------------------------
(* Properties of the funding ledger, the access guard and the login limiter *)

Cancels == {"DeleteMyContribution", "AdminDeleteContribution"}

\* the step just taken answered a POST /api/contributions that got past the
\* guard and the validation of its body
AddAttempted == last'.op = "CreateContribution" /\ last'.input # NoInput

\* the handlers the step just taken suspended at their await, and resumed
Starting == {p \in BagToSet(inflight') : CopiesIn(p, inflight') > CopiesIn(p, inflight)}
Resuming == {p \in BagToSet(inflight) : CopiesIn(p, inflight') < CopiesIn(p, inflight)}

\* the response of the step was given in the step of the handler's SELECT
AnsweredAtSelect == inflight' = inflight

\* C1: for every item and every sequence of AddContribution requests against
\* it, the stored price_raised never exceeds price_total in any reachable state
C1_RaisedAtMostTotal ==
  \A i \in DOMAIN items : AtMost(items[i].price_raised, items[i].price_total)

\* C2: after every successful AddContribution, whatever row of the item the
\* request read, the item's stored is_funded is 1 exactly when its stored
\* price_raised >= the price_total of the item as the request read it
C2_FundedIffRaisedReachesTotal ==
  [][(last'.op = "CreateContribution" /\ last'.status = 201) =>
       \A p \in Resuming :
         /\ p.op = "CreateContribution"
         /\ p.body.item_id \in DOMAIN items'
         /\ items'[p.body.item_id].is_funded = 1
              <=> AtMost(p.row.price_total, items'[p.body.item_id].price_raised)]_vars

C2_Witness ==
  /\ last.op = "CreateContribution" /\ last.status = 201
  /\ items[last.input.item_id].is_funded = 1
  /\ items[last.input.item_id].price_raised = items[last.input.item_id].price_total

\* C3: simultaneous AddContributions on one item are serialised: every
\* successful one computes its applied amount from the price_raised stored when
\* its batch runs, so price_raised grows by each recorded amount
C3_AddsSerialised ==
  [][(last'.op = "CreateContribution" /\ last'.status = 201) =>
       /\ last'.body.applied_amount =
            Min(last'.input.amount,
                Minus(items[last'.input.item_id].price_total,
                      items[last'.input.item_id].price_raised))
       /\ items'[last'.input.item_id].price_raised =
            Plus(items[last'.input.item_id].price_raised,
                 contributions'[nextContribId].amount)]_vars

\* C4: an AddContribution that read an existing item with is_funded = 0 and
\* price_raised < price_total answers applied_amount = min(amount, price_total -
\* price_raised), new_raised = price_raised + applied_amount and is_funded =
\* (new_raised >= price_total), inserts a contribution of amount applied_amount
\* and stores new_raised and is_funded on the item
C4_AddAppliesClippedAmount ==
  [][\A p \in Resuming :
       (/\ p.op = "CreateContribution"
        /\ p.body.item_id \in DOMAIN items
        /\ p.row.is_funded = 0
        /\ Less(p.row.price_raised, p.row.price_total)) =>
         LET id      == p.body.item_id
             applied == Min(p.body.amount, Minus(p.row.price_total, p.row.price_raised))
             raised  == Plus(p.row.price_raised, applied)
             funded  == AtMost(p.row.price_total, raised)
         IN /\ last'.status = 201
            /\ last'.body = [success |-> TRUE, applied_amount |-> applied,
                             new_raised |-> raised, is_funded |-> funded]
            /\ DOMAIN contributions' = DOMAIN contributions \cup {nextContribId}
            /\ nextContribId \notin DOMAIN contributions
            /\ \A c \in DOMAIN contributions : contributions'[c] = contributions[c]
            /\ contributions'[nextContribId].item_id = id
            /\ contributions'[nextContribId].amount = applied
            /\ items' = [items EXCEPT ![id].price_raised = raised,
                                      ![id].is_funded = IF funded THEN 1 ELSE 0]]_vars

C4_Witness ==
  /\ last.op = "CreateContribution" /\ last.status = 201
  /\ Less(last.body.applied_amount, last.input.amount)
  /\ last.body.is_funded
  /\ \E c \in DOMAIN contributions :
       /\ contributions[c].item_id = last.input.item_id
       /\ contributions[c].amount = last.body.applied_amount

\* C5: every AddContribution that finds the is_funded flag of its item set is
\* answered 409 there, inserts no contribution and leaves the item unchanged;
\* none goes on to its batch
C5_FundedItemConflict ==
  [][/\ (/\ AddAttempted /\ AnsweredAtSelect
         /\ last'.input.item_id \in DOMAIN items
         /\ items[last'.input.item_id].is_funded = 1) =>
          /\ last'.status = 409
          /\ UNCHANGED <<items, contributions>>
     /\ \A p \in Starting :
          p.op = "CreateContribution" => items[p.body.item_id].is_funded = 0]_vars

C5_Witness ==
  /\ last.op = "CreateContribution" /\ last.status = 409
  /\ items[last.input.item_id].is_funded = 1
  /\ Less(items[last.input.item_id].price_raised, items[last.input.item_id].price_total)

\* C6: a successful CancelContribution (by the owner, whose identity token
\* matches, or by the admin) leaves that contribution removed, sets the item's
\* price_raised to max(0, price_raised - amount) and its is_funded to 0, and
\* leaves the rest of the item, the other items and contributions as they were
C6_CancelEffect ==
  [][(last'.op \in Cancels /\ last'.status = 200) =>
       \A p \in Resuming :
         /\ p.id \in DOMAIN contributions =>
              /\ contributions[p.id].item_id = p.row.item_id
              /\ contributions[p.id].amount = p.row.amount
              /\ p.op = "DeleteMyContribution" =>
                   contributions[p.id].contributor_ip = getIP(p.request)
         /\ DOMAIN contributions' = DOMAIN contributions \ {p.id}
         /\ \A c \in DOMAIN contributions' : contributions'[c] = contributions[c]
         /\ DOMAIN items' = DOMAIN items
         /\ \A i \in DOMAIN items :
              items'[i] =
                IF i = p.row.item_id
                THEN [items[i] EXCEPT
                        !.price_raised = Max(Zero, Minus(items[i].price_raised,
                                                         p.row.amount)),
                        !.is_funded = 0]
                ELSE items[i]]_vars

C6_Witness ==
  /\ last.op \in Cancels /\ last.status = 200
  /\ \E i \in DOMAIN items :
       /\ items[i].is_funded = 0
       /\ AtMost(items[i].price_total, items[i].price_raised)
       /\ Less(Zero, items[i].price_raised)
       /\ ContribsOf(i) # {}

\* C7: price_raised >= 0 for every item in every reachable state, under any
\* interleaving of AddContribution, CancelContribution and UpdateItem; a
\* cancellation of more than the item's price_raised leaves 0
C7_RaisedNeverNegative ==
  /\ \A i \in DOMAIN items : AtMost(Zero, items[i].price_raised)
  /\ (/\ last.op \in Cancels /\ last.status = 200
      /\ Less(last.input.found_raised, last.input.amount)
      /\ last.input.item_id \in DOMAIN items)
       => items[last.input.item_id].price_raised = Zero

C7_Witness ==
  /\ last.op \in Cancels /\ last.status = 200
  /\ Less(last.input.found_raised, last.input.amount)
  /\ last.input.item_id \in DOMAIN items
  /\ items[last.input.item_id].price_raised = Zero

\* C8: an owner cancellation of a contribution stored with another identity
\* token gets the same response (404, same body) as one of an id that does not
\* exist, neither changes any contribution or item, and neither goes on to the
\* batch
C8_ForeignLooksAbsent ==
  [][/\ (/\ last'.op = "DeleteMyContribution" /\ AnsweredAtSelect
         /\ last'.input # NoInput
         /\ \/ last'.input.id \notin DOMAIN contributions
            \/ contributions[last'.input.id].contributor_ip # last'.input.ip) =>
          /\ last'.status = 404
          /\ last'.body = Error("Não encontrado")
          /\ UNCHANGED <<items, contributions>>
     /\ \A p \in Starting :
          p.op = "DeleteMyContribution" =>
            /\ p.id \in DOMAIN contributions
            /\ contributions[p.id].contributor_ip = getIP(p.request)]_vars

C8_Witness ==
  /\ last.op = "DeleteMyContribution" /\ last.status = 404
  /\ last.input.id \in DOMAIN contributions
  /\ contributions[last.input.id].contributor_ip # last.input.ip

AdminOnly == {"CreateItem", "UpdateItem", "DeleteItem", "GetContributions",
              "AdminDeleteContribution"}
GuestOrAdmin == {"CreateContribution", "DeleteMyContribution", "GetMyContributions",
                 "Chat"}

\* the capabilities a request holds: it carries the secret in the header
HoldsAdmin(request) == request.X_Admin_Password = ADMIN_PASSWORD
HoldsGuest(request) == request.X_Guest_Password = GUEST_PASSWORD

LacksCapability(op, request) ==
  \/ op \in AdminOnly /\ ~HoldsAdmin(request)
  \/ op \in GuestOrAdmin /\ ~HoldsGuest(request) /\ ~HoldsAdmin(request)

\* C9: the admin-only operations take effect only for requests holding the
\* admin capability, the guest operations only for requests holding the guest
\* or the admin capability; a request lacking it is answered 401 and leaves
\* items, contributions and rate-limit counters unchanged
C9_GuardedOperations ==
  [][LacksCapability(last'.op, last'.request) =>
       /\ last'.status = 401
       /\ UNCHANGED <<items, contributions, rate, inflight>>]_vars

C9_Witness ==
  /\ last.status = 401
  /\ last.op \in AdminOnly
  /\ HoldsGuest(last.request)
  /\ last.request.X_Admin_Password # NoHeader
  /\ \E c \in DOMAIN contributions : TRUE

Auths == {"AdminAuth", "GuestAuth"}

\* C10: once an identity's counter of the day has reached 10 wrong attempts,
\* every further attempt of that identity that day is answered 429 at the
\* SELECT of the counter, also with the correct password, and leaves the counter
\* as it is; only an attempt that found the counter below 10 goes on to the
\* comparison of its password
C10_LimitedAfterTenWrong ==
  [][/\ (/\ last'.op \in Auths /\ AnsweredAtSelect
         /\ last'.input # NoInput) =>
          /\ Attempts(last'.input.key, today) >= 10
          /\ last'.input.attempts = Attempts(last'.input.key, today)
          /\ last'.status = 429
          /\ rate' = rate
     /\ \A p \in Starting :
          p.op \in Auths => Attempts(p.key, today) < 10 /\ p.attempts = Attempts(p.key, today)]_vars

C10_Witness ==
  /\ last.op = "AdminAuth" /\ last.status = 429
  /\ last.input.password = ADMIN_PASSWORD
  /\ Attempts(last.input.key, today) = 10

\* C11: an attempt that found the identity's counter of the day below 10 is
\* answered 200 and clears the counter when its password is correct (so 10
\* wrong attempts are again possible), and is answered 401 and adds exactly 1
\* to the counter when it is wrong
C11_CorrectClearsWrongCounts ==
  [][\A p \in Resuming :
       p.op \in Auths =>
         /\ p.attempts < 10
         /\ IF p.body.password = SecretOf(p.op)
            THEN /\ last'.status = 200
                 /\ <<p.key, p.day>> \notin DOMAIN rate'
            ELSE /\ last'.status = 401
                 /\ <<p.key, p.day>> \in DOMAIN rate'
                 /\ rate'[<<p.key, p.day>>] = Attempts(p.key, p.day) + 1]_vars

C11_Witness ==
  /\ last.op = "GuestAuth" /\ last.status = 200
  /\ last.input.attempts = 9
  /\ Attempts(last.input.key, today) = 0

\* the turn of a chat request that reached the extractor's answer
ChatAnswered == last.op = "Chat" /\ last.status = 200

\* C12: a chat turn surfaces a contribute proposal only if the extractor proposed
\* one whose item is in the turn's snapshot of the registry, not funded there,
\* with an amount > 0 and a name, and a cancel proposal only if the extractor
\* proposed one whose contribution is among the caller's own in the snapshot;
\* any other extractor output surfaces nothing
C12_SurfacedOnlyIfValid ==
  ChatAnswered =>
    LET data == last.input.data
        contribution == last.body.contribution_pending
        cancellation == last.body.cancellation_pending
    IN
    /\ contribution # Null =>
         /\ data # Null /\ data.action = "contribute"
         /\ data.item_id \in DOMAIN last.input.items
         /\ last.input.items[data.item_id].is_funded = 0
         /\ Less(Zero, data.amount)
         /\ data.name # ""
         /\ contribution.item_id = data.item_id
         /\ contribution.amount = data.amount
         /\ cancellation = Null
    /\ cancellation # Null =>
         /\ data # Null /\ data.action = "cancel"
         /\ data.contribution_id \in DOMAIN last.input.mine
         /\ cancellation.contribution_id = data.contribution_id
         /\ contribution = Null
    /\ (data = Null \/ data.action \notin {"contribute", "cancel"}) =>
         contribution = Null /\ cancellation = Null

C12_Witness ==
  /\ ChatAnswered
  /\ last.body.contribution_pending # Null
  /\ \E i \in DOMAIN items : items[i].is_funded = 1

\* some stored item's price_raised or is_funded differs after the step, or the
\* contribution rows do
LedgerChanges ==
  \/ contributions' # contributions
  \/ \E id \in DOMAIN items \cap DOMAIN items' :
       \/ items'[id].price_raised # items[id].price_raised
       \/ items'[id].is_funded # items[id].is_funded

\* C13 as stated: a chat turn leaves every item and every contribution unchanged,
\* and price_raised, is_funded and the contribution rows change only in a step of
\* AddContribution or CancelContribution
C13_OnlyAddOrCancelChange ==
  [][/\ last'.op = "Chat" => UNCHANGED <<items, contributions>>
     /\ LedgerChanges =>
          last'.op \in {"CreateContribution"} \cup Cancels]_vars

\* C13 amended: a chat turn leaves every item and every contribution unchanged;
\* price_raised, is_funded and the contribution rows change only in a step of
\* AddContribution, CancelContribution, or the admin's UpdateItem or DeleteItem
C13_ChatChangesNothing ==
  [][/\ last'.op = "Chat" => UNCHANGED <<items, contributions>>
     /\ LedgerChanges =>
          last'.op \in {"CreateContribution", "UpdateItem", "DeleteItem"} \cup Cancels]_vars

C13_Witness ==
  /\ ChatAnswered
  /\ last.body.cancellation_pending # Null
  /\ \E id \in DOMAIN items : Less(Zero, items[id].price_raised)

\* the step just taken stored is_funded `to` over is_funded `from` on item id
FundedFlips(id, from, to) ==
  /\ id \in DOMAIN items /\ id \in DOMAIN items'
  /\ items[id].is_funded = from /\ items'[id].is_funded = to

\* C14: a step that changes an item's is_funded from 1 to 0 is a cancellation of
\* one of that item's contributions or an admin UpdateItem of that item that
\* lowers its price_total or its price_raised; nothing else does it
C14_ReopenedOnlyByCancelOrLowering ==
  [][\A id \in DOMAIN items :
       FundedFlips(id, 1, 0) =>
         \/ last'.op \in Cancels /\ last'.input.item_id = id
         \/ /\ last'.op = "UpdateItem" /\ last'.input.id = id
            /\ \/ Less(items'[id].price_total, items[id].price_total)
               \/ Less(items'[id].price_raised, items[id].price_raised)]_vars

\* C15: a step that changes an item's is_funded from 0 to 1 is a contribution to
\* that item or an admin UpdateItem of it, and after the step the item's
\* price_raised >= price_total
C15_FundedOnlyWhenRaisedReachesTotal ==
  [][\A id \in DOMAIN items :
       FundedFlips(id, 0, 1) =>
         /\ \/ last'.op = "CreateContribution" /\ last'.input.item_id = id
            \/ last'.op = "UpdateItem" /\ last'.input.id = id
         /\ AtMost(items'[id].price_total, items'[id].price_raised)]_vars

\* C16: a DeleteItem leaves neither the item nor any contribution to it, a
\* CancelContribution removes no item, and after every step, however DeleteItem
\* is interleaved with contributions and cancellations, every stored
\* contribution's item_id is the id of a stored item
C16_NoOrphanContribution ==
  [][/\ \A c \in DOMAIN contributions' : contributions'[c].item_id \in DOMAIN items'
     /\ (last'.op = "DeleteItem" /\ last'.status = 200) =>
          /\ last'.input.id \notin DOMAIN items'
          /\ \A c \in DOMAIN contributions' : contributions'[c].item_id # last'.input.id
          /\ \A c \in DOMAIN contributions :
               contributions[c].item_id # last'.input.id => c \in DOMAIN contributions'
     /\ last'.op \in Cancels => DOMAIN items' = DOMAIN items]_vars

\* the item was deleted with a contribution to it in flight, whose batch then
\* failed on the foreign key
C16_Witness ==
  /\ 1 \notin DOMAIN items /\ contributions = <<>>
  /\ nextContribId > 1
  /\ last.op = "CreateContribution" /\ last.status = 500

\* C17: with the auth requests of one identity interleaved on one day, the
\* counter of wrong passwords verified since the last correct one never exceeds
\* 10, and no password is accepted while the stored counter is 10 or more
C17_LimiterAtomic ==
  [][/\ \A k \in DOMAIN rate' : rate'[k] <= LOGIN_LIMIT
     /\ (last'.op \in Auths /\ last'.status = 200) =>
          Attempts(last'.input.key, today) < LOGIN_LIMIT]_vars

\* C18: a contribution or cancellation answered 500 (its batch failed) has
\* changed no item and no contribution, and a contribution answered 201 has
\* stored a row that meets the constraints of the schema: its item exists and
\* its amount is > 0
C18_FailedBatchChangesNothing ==
  [][/\ (last'.op \in {"CreateContribution"} \cup Cancels /\ last'.status = 500) =>
          UNCHANGED <<items, contributions>>
     /\ (last'.op = "CreateContribution" /\ last'.status = 201) =>
          /\ nextContribId \in DOMAIN contributions'
          /\ ContributionRowOK(contributions'[nextContribId])
          /\ last'.input.item_id \in DOMAIN items'
          /\ Less(Zero, last'.body.applied_amount)
          /\ AtMost(Zero, items'[last'.input.item_id].price_raised)
     /\ (AddAttempted /\ last'.status \notin {0, 404, 409, 201}) =>
          last'.status = 500]_vars

\* a contribution to a stored item whose remaining amount is not positive: the
\* INSERT fails on CHECK(amount > 0)
C18_Witness ==
  /\ last.op = "CreateContribution" /\ last.status = 500
  /\ last.input.item_id \in DOMAIN items
  /\ ~Less(items[last.input.item_id].price_raised, items[last.input.item_id].price_total)

\* a chat request that got past the guard and the validation of its message
\* and was answered
ChatAttempted == last.op = "Chat" /\ last.input # NoInput

\* C19: a chat turn one of whose model calls fails (throws, or answers without
\* a response) is still answered 200: with the canned reply when the responder
\* failed, with no pending action when the extractor failed
C19_ModelFailureDegrades ==
  ChatAttempted =>
    /\ last.status = 200
    /\ last.input.responder # "response" => last.body.reply = "fallback"
    /\ last.input.extractor # "response" =>
         /\ last.body.contribution_pending = Null
         /\ last.body.cancellation_pending = Null

\* C20: a chat turn whose extractor output holds no parseable JSON object, or
\* an object whose action is neither contribute nor cancel, is answered 200
\* with the responder's reply and both pending proposals null
C20_MalformedOutputIsNoAction ==
  (/\ ChatAttempted
   /\ last.input.responder # "throws" /\ last.input.extractor # "throws"
   /\ \/ last.input.data = Null
      \/ last.input.data.action \notin {"contribute", "cancel"}) =>
    /\ last.status = 200
    /\ last.body.reply = IF last.input.responder = "response" THEN "reply" ELSE "fallback"
    /\ last.body.contribution_pending = Null
    /\ last.body.cancellation_pending = Null

C20_Witness ==
  /\ ChatAttempted /\ last.status = 200
  /\ last.input.extractor = "response"
  /\ last.input.data = Null
  /\ last.body.reply = "reply"

\* the stored flag of the item agrees with its amounts
FlagAgrees(item) == (item.is_funded = 1) <=> AtMost(item.price_total, item.price_raised)

\* the step just taken answered an AddContribution or a CancelContribution that
\* names item id
LedgerRequestOn(id) ==
  /\ last'.op \in {"CreateContribution"} \cup Cancels
  /\ Has(last'.input, "item_id")
  /\ last'.input.item_id = id

\* C21: when an admin edit has just left an item with is_funded different from
\* (price_raised >= price_total), the next AddContribution or CancelContribution
\* on that item leaves is_funded = (price_raised >= price_total) for it
C21_NextLedgerRequestReconciles ==
  [][\A id \in DOMAIN items \cap DOMAIN items' :
       (/\ last.op = "UpdateItem" /\ last.status = 200 /\ last.input.id = id
        /\ ~FlagAgrees(items[id])
        /\ LedgerRequestOn(id)) =>
         FlagAgrees(items'[id])]_vars

\* the step just taken answered an AddContribution with the inputs of the
\* successful AddContribution answered just before it
SameAddAgain ==
  /\ last.op = "CreateContribution" /\ last.status = 201
  /\ AddAttempted
  /\ last'.request = last.request
  /\ last'.input = last.input

\* price_raised of the item before the first of the two calls
RaisedBeforeFirst == Minus(last.body.new_raised, last.body.applied_amount)

\* min(price_total, initial price_raised + 2 * amount)
CumulativeClipped(id) ==
  Min(items[id].price_total,
      Plus(RaisedBeforeFirst, Plus(last.input.amount, last.input.amount)))

\* C22: the second of two successive AddContributions with the same inputs
\* against a not-yet-funded item also stores a contribution record of its own,
\* and price_raised is then min(price_total, initial price_raised + 2 * amount)
C22_TwiceAddsTwoRecords ==
  [][SameAddAgain =>
       LET id == last.input.item_id IN
       /\ last'.status = 201
       /\ nextContribId \in DOMAIN contributions' \ DOMAIN contributions
       /\ nextContribId - 1 \in DOMAIN contributions'
       /\ items'[id].price_raised = CumulativeClipped(id)]_vars

\* the item at position i of a listing is listed before the one at position j
\* by the stated policy: flagged items last, then unfunded first, then by
\* creation (ids are given in order of creation)
PolicyBefore(a, b) ==
  \/ items[a].is_generic < items[b].is_generic
  \/ items[a].is_generic = items[b].is_generic /\ items[a].is_funded < items[b].is_funded
  \/ /\ items[a].is_generic = items[b].is_generic
     /\ items[a].is_funded = items[b].is_funded
     /\ a < b

\* C23: ListItems returns every item exactly once, items carrying the
\* generic-donation flag after all others, within each group unfunded before
\* funded, and otherwise in ascending order of creation
C23_ListedInPolicyOrder ==
  (last.op = "GetItems" /\ last.status = 200) =>
    LET rows == last.body.rows IN
    /\ Len(rows) = Cardinality(DOMAIN items)
    /\ {rows[i] : i \in DOMAIN rows} = DOMAIN items
    /\ \A i, j \in DOMAIN rows : i < j => PolicyBefore(rows[i], rows[j])

\* the patch supplies field f: present, and for a text field not blank
Supplies(body, f) ==
  /\ Has(body, f)
  /\ f = "title" => sanitise(body.title, MAX_GENERIC_STRING) # ""

\* C24: an admin's UpdateItem of an existing item is answered 200 for any patch,
\* stores the patch's value in every field the patch supplies and leaves every
\* field whose patch value is blank or absent, and price_raised, as it was
C24_PatchKeepsAbsentFields ==
  [][(/\ last'.op = "UpdateItem" /\ last'.status # 0
      /\ HoldsAdmin(last'.request)
      /\ last'.input.id \in DOMAIN items) =>
       LET id   == last'.input.id
           body == last'.input.body
       IN
       /\ last'.status = 200
       /\ id \in DOMAIN items'
       /\ items'[id].title = IF Supplies(body, "title") THEN body.title
                             ELSE items[id].title
       /\ items'[id].price_total = IF Supplies(body, "price_total") THEN body.price_total
                                   ELSE items[id].price_total
       /\ items'[id].is_funded = IF Supplies(body, "is_funded") THEN body.is_funded
                                 ELSE items[id].is_funded
       /\ items'[id].price_raised = items[id].price_raised]_vars

\* the last request answered was a POST /api/contributions or a POST /api/chat
\* carrying neither the guest's nor the admin's secret
UncredentialedPost ==
  /\ last.op \in {"CreateContribution", "Chat"}
  /\ last.status # 0
  /\ ~HoldsGuest(last.request) /\ ~HoldsAdmin(last.request)

\* C25 as stated: POST /api/contributions and POST /api/chat need no credential,
\* a request with neither valid header is processed, not rejected
C25_NoCredentialNeeded ==
  UncredentialedPost => last.status # 401

\* C25 amended: POST /api/contributions and POST /api/chat need the guest's or
\* the admin's credential, a request with neither valid header is answered 401
\* Unauthorized before its body is read
C25_CredentialNeeded ==
  /\ UncredentialedPost =>
       /\ last.status = 401
       /\ last.body = Error("Unauthorized")
       /\ last.input = NoInput
  /\ \A p \in BagToSet(inflight) :
       p.op \in {"CreateContribution", "Chat", "ChatModels"} =>
         HoldsGuest(p.request) \/ HoldsAdmin(p.request)

C25_Witness ==
  /\ UncredentialedPost
  /\ last.op = "Chat"
  /\ last.request.X_Guest_Password = NoHeader
  /\ last.status = 401

\* C26: with CancelContribution requests for one contribution id in flight
\* together, the contribution is removed once and the item's price_raised is
\* lowered by its amount once: a cancellation that finds the row already removed
\* leaves every item as it is
C26_CancelledOnce ==
  [][(/\ last'.op \in Cancels /\ last'.status = 200
      /\ last'.input.id \notin DOMAIN contributions) =>
       UNCHANGED items]_vars

\* the sum of the amounts of the contributions with the given ids
RECURSIVE SumOfAmounts(_)
SumOfAmounts(ids) ==
  IF ids = {} THEN Zero
  ELSE LET c == CHOOSE c \in ids : TRUE
       IN Plus(contributions[c].amount, SumOfAmounts(ids \ {c}))

\* C27: an AddContribution in flight together with a CancelContribution on the
\* same item leaves the state that the two requests leave when run one after
\* the other in some order; run one after the other they keep price_raised
\* equal to the sum of the item's stored contributions, so that holds whenever
\* none is in flight
C27_AddCancelSerialisable ==
  inflight = EmptyBag =>
    \A id \in DOMAIN items : items[id].price_raised = SumOfAmounts(ContribsOf(id))

\* the sums of the amounts of the given contributions, added up in any order
RECURSIVE SumsOfAmounts(_)
SumsOfAmounts(ids) ==
  IF ids = {} THEN {Zero}
  ELSE UNION {{Plus(s, contributions[c].amount) : s \in SumsOfAmounts(ids \ {c})} :
              c \in ids}

\* C28: with requests handled one at a time, every item's price_raised equals
\* the sum of the amounts of the contributions stored for it, in every
\* reachable state
C28_RaisedIsSumOfContributions ==
  \A id \in DOMAIN items :
    items[id].price_raised \in SumsOfAmounts(ContribsOf(id))

\* C29: an AddContribution with a valid body for a stored item whose is_funded
\* is 0 is answered 201 and stores a contribution of amount > 0, whatever the
\* item's amounts are; and every stored contribution has amount > 0
C29_ValidAddOnOpenItemSucceeds ==
  [][/\ (/\ AddAttempted
         /\ last'.input.item_id \in DOMAIN items
         /\ items[last'.input.item_id].is_funded = 0) =>
          /\ last'.status = 201
          /\ nextContribId \in DOMAIN contributions'
          /\ Less(Zero, contributions'[nextContribId].amount)
     /\ \A c \in DOMAIN contributions' : Less(Zero, contributions'[c].amount)]_vars

\* the proposals the client holds
Held(op) == {p \in BagToSet(inflight) : p.op = op}

\* C30: the confirmation of a contribute proposal whose item has become funded
\* since the chat turn is answered 409, the confirmation of a cancel proposal
\* whose contribution has been removed since is answered 404; both are answered
\* at the handler's SELECT, go no further and leave the items and the
\* contributions as they are
C30_ConfirmationRevalidates ==
  [][/\ \A p \in Held("ContributionProposal") :
          (/\ p.pending.item_id \in DOMAIN items
           /\ items[p.pending.item_id].is_funded = 1) =>
            /\ \A q \in Starting :
                 ~(/\ q.op = "CreateContribution" /\ q.request = Guest2
                   /\ q.body = ConfirmBody(p.pending))
            /\ (/\ AddAttempted /\ AnsweredAtSelect /\ last'.request = Guest2
                /\ last'.input = ContributionInput(ConfirmBody(p.pending))) =>
                 /\ last'.status = 409
                 /\ UNCHANGED <<items, contributions>>
     /\ \A p \in Held("CancellationProposal") :
          p.pending.contribution_id \notin DOMAIN contributions =>
            /\ \A q \in Starting :
                 ~(/\ q.op = "DeleteMyContribution" /\ q.request = Guest2
                   /\ q.id = p.pending.contribution_id)
            /\ (/\ last'.op = "DeleteMyContribution" /\ AnsweredAtSelect
                /\ last'.request = Guest2
                /\ last'.input.id = p.pending.contribution_id) =>
                 /\ last'.status = 404
                 /\ UNCHANGED <<items, contributions>>]_vars

\* the guest at ip2, who only acts on proposals, was answered Conflict: the item
\* was open when the proposal was surfaced and funded when it was confirmed
C30_Witness ==
  /\ last.op = "CreateContribution" /\ last.status = 409
  /\ last.request = Guest2
  /\ last.input.item_id \in DOMAIN items
  /\ items[last.input.item_id].is_funded = 1

\* C31: every chat response carries at most one pending action:
\* contribution_pending and cancellation_pending are never both non-null in
\* the same response
C31_AtMostOnePending ==
  last.op = "Chat" =>
    ~(/\ Has(last.body, "contribution_pending")
      /\ last.body.contribution_pending # Null
      /\ last.body.cancellation_pending # Null)

\* the extractor's object names an open item and one of the caller's own
\* contributions at once, and the turn surfaces the contribution only
C31_Witness ==
  /\ ChatAnswered
  /\ last.input.data # Null
  /\ Has(last.input.data, "item_id") /\ Has(last.input.data, "contribution_id")
  /\ last.input.data.contribution_id \in DOMAIN last.input.mine
  /\ last.body.contribution_pending # Null
  /\ last.body.cancellation_pending = Null

\* C32: the identifying fields of a surfaced proposal come from the turn's
\* snapshot, not from the extractor: a contribute proposal's item_id and
\* item_title are those of a snapshot item, and a cancel proposal's
\* contribution_id, item_title and amount are those of one of the caller's
\* snapshot contributions, whatever item_title or amount the extractor emitted
C32_ProposalFieldsFromSnapshot ==
  ChatAnswered =>
    LET contribution == last.body.contribution_pending
        cancellation == last.body.cancellation_pending
    IN
    /\ contribution # Null =>
         /\ contribution.item_id \in DOMAIN last.input.items
         /\ contribution.item_title = last.input.items[contribution.item_id].title
    /\ cancellation # Null =>
         /\ cancellation.contribution_id \in DOMAIN last.input.mine
         /\ cancellation.item_title =
              last.input.mine[cancellation.contribution_id].item_title
         /\ cancellation.amount = last.input.mine[cancellation.contribution_id].amount

\* a cancel proposal is surfaced for an object whose item_title and amount
\* are not those of the stored contribution
C32_Witness ==
  /\ ChatAnswered
  /\ last.body.cancellation_pending # Null
  /\ last.input.data.item_title # last.body.cancellation_pending.item_title
  /\ last.input.data.amount # last.body.cancellation_pending.amount

\* C33: chat is rate limited per caller IP and UTC day: a chat message that
\* passed the guard and the validation is rejected with 429, the counter left
\* alone, once the IP's counter of the day has reached CHAT_DAILY_LIMIT, and
\* otherwise increments that counter by exactly 1
C33_ChatRateLimited ==
  [][(last'.op = "Chat" /\ last'.status \notin {0, 401, 400}) =>
       LET ip == getIP(last'.request)
       IN
       IF Attempts(ip, today) >= CHAT_DAILY_LIMIT
       THEN last'.status = 429 /\ UNCHANGED rate
       ELSE /\ <<ip, today>> \in DOMAIN rate'
            /\ rate'[<<ip, today>>] = Attempts(ip, today) + 1]_vars

\* the counter an auth request is scoped to: the endpoint's prefix and the
\* caller's address
LimiterKey(op, request) ==
  (IF op = "AdminAuth" THEN "admin:" ELSE "guest:") \o AuthIP(request)

\* C34: the admin and guest login limiters are independent and each is scoped
\* to one identity and one UTC day: an attempt at /admin/auth changes at most
\* the counter keyed (admin:<addr>, day of the attempt), never a guest counter,
\* another address's counter or another day's counter, and symmetrically for
\* /guest/auth; an attempt is limited only by today's counter of its own key, so
\* a counter that reached 10 on one day does not limit the identity the next day
C34_LimitersIndependent ==
  [][/\ (last'.op \in Auths /\ last'.input # NoInput) =>
          LET key == LimiterKey(last'.op, last'.request)
          IN
          /\ \A k \in (DOMAIN rate \cup DOMAIN rate') \ {<<key, last'.input.day>>} :
               k \in DOMAIN rate /\ k \in DOMAIN rate' /\ rate'[k] = rate[k]
          /\ last'.status = 429 =>
               last'.input.day = today /\ Attempts(key, today) >= LOGIN_LIMIT
     /\ \A p \in Starting :
          p.op \in Auths =>
            /\ rate' = rate
            /\ p.day = today
            /\ Attempts(LimiterKey(p.op, p.request), today) < LOGIN_LIMIT]_vars

\* an identity whose counter reached 10 yesterday is answered on its password
\* today, while a counter of the other limiter for the same address stands
C34_Witness ==
  /\ today = 2
  /\ last.op = "AdminAuth" /\ last.status = 401
  /\ Attempts(LimiterKey("AdminAuth", last.request), 1) = LOGIN_LIMIT
  /\ Attempts(LimiterKey("AdminAuth", last.request), 2) = 1
  /\ Attempts(LimiterKey("GuestAuth", last.request), 1) = 1

\* C35: an admin UpdateItem whose patch omits is_funded and price_total never
\* changes the item's is_funded, price_total or price_raised, also when an
\* AddContribution or CancelContribution on the same item commits between the
\* edit's read and its write; UpdateItem never changes price_raised or any
\* contribution
C35_PatchWithoutFundingKeepsIt ==
  [][(last'.op = "UpdateItem" /\ last'.input # NoInput) =>
       /\ contributions' = contributions
       /\ \A id \in DOMAIN items :
            /\ id \in DOMAIN items'
            /\ items'[id].price_raised = items[id].price_raised
            /\ (~Has(last'.input.body, "is_funded") /\ ~Has(last'.input.body, "price_total")) =>
                 /\ items'[id].is_funded = items[id].is_funded
                 /\ items'[id].price_total = items[id].price_total]_vars

\* the name under which the contribution, if stored, was made is the caller's
OwnContribution(c, request) ==
  c \in DOMAIN contributions => contributions[c].contributor_name = NameOf(request)

\* C36: owner authority isolates callers: for any two requests from different
\* network origins, including origins whose requests carry neither the
\* CF-Connecting-IP nor the X-Forwarded-For header, a contribution created by
\* one is never returned by GET /my-contributions to the other, never appears
\* among the other's contributions in a chat turn, and cannot be cancelled by
\* the other through DELETE /my-contributions/:id
C36_OwnersIsolated ==
  [][/\ (last'.op = "GetMyContributions" /\ last'.status = 200) =>
          \A c \in last'.body.ids : OwnContribution(c, last'.request)
     /\ (last'.op = "Chat" /\ last'.status = 200) =>
          \A c \in DOMAIN last'.input.mine : OwnContribution(c, last'.request)
     /\ (last'.op = "DeleteMyContribution" /\ last'.status = 200) =>
          OwnContribution(last'.input.id, last'.request)]_vars

\* a well-formed object starts at piece i of the text: "{}" or braces around
\* one members list
WellFormedAt(text, i) ==
  /\ i \in 1..Len(text) /\ text[i] = "{"
  /\ \/ i + 1 <= Len(text) /\ text[i + 1] = "}"
     \/ i + 2 <= Len(text) /\ text[i + 1] \in Members /\ text[i + 2] = "}"

\* the object of the first well-formed object substring of the text, or Null
FirstWellFormed(text) ==
  LET starts == {i \in 1..Len(text) : WellFormedAt(text, i)}
      first  == CHOOSE i \in starts : \A j \in starts : i <= j
  IN
  IF starts = {} THEN Null
  ELSE IF text[first + 1] = "}" THEN [action |-> Undefined]
  ELSE MemberData(text[first + 1])

\* C37: when the extractor's text is prose, which may itself contain brace
\* characters, around one well-formed proposal object, the turn takes the first
\* well-formed object as the proposal and surfaces it if it passes validation;
\* only a text without a well-formed object is treated as no action
C37_FirstWellFormedObjectTaken ==
  (last.op = "Chat" /\ last.status = 200) =>
    LET proposal == FirstWellFormed(last.input.raw)
    IN
    /\ last.body.contribution_pending =
         IF proposal # Null /\ proposal.action = "contribute"
         THEN ContributionPending(proposal, last.input.items) ELSE Null
    /\ last.body.cancellation_pending =
         IF proposal # Null /\ proposal.action = "cancel"
         THEN CancellationPending(proposal, last.input.mine)
         ELSE Null

\* the request answered by the step carried a negative price_total
NegativePriceSent ==
  /\ last'.op \in {"CreateItem", "UpdateItem"}
  /\ last'.input # NoInput
  /\ Has(last'.input.body, "price_total")
  /\ Less(last'.input.body.price_total, Zero)
  /\ sanitise(last'.input.body.title, MAX_GENERIC_STRING) # ""
  /\ last'.op = "UpdateItem" => last'.input.id \in DOMAIN items

\* C38: a CreateItem or UpdateItem request carrying a negative price_total is
\* rejected as a validation error (400) and leaves every item unchanged, so
\* price_total >= 0 holds for every item in every reachable state
C38_NegativePriceRejected ==
  [][/\ NegativePriceSent => (last'.status = 400 /\ items' = items)
     /\ \A id \in DOMAIN items' : AtMost(Zero, items'[id].price_total)]_vars

====
